---- MODULE Spec2Model ----
(***************************************************************************)
(* LG soundbar integration: the protocol client (client.py, LGDevice) and  *)
(* the transport library (lglib.py, Temescal).                             *)
(*                                                                         *)
(* Python values are represented as follows.                                *)
(*   - None is the string "None" (names are never that string).            *)
(*   - A float is an exact rational <<numerator, denominator>> in lowest   *)
(*     terms with a positive denominator; the integers of the model are    *)
(*     small, so equal floats are equal rationals and conversely.          *)
(*   - A dict is a function whose domain is its set of keys.               *)
(*   - A list is a sequence; Python index i is TLA+ index i + 1.           *)
(***************************************************************************)
EXTENDS Integers, Sequences, FiniteSets, TLC

VARIABLES
    dev,          \* the LGDevice fields written by handle_event and the facade
    transport,    \* Temescal._transport: "None" or "open"
    connected,    \* Temescal._connected
    always_on,    \* DeviceInstance.always_on (configuration)
    update_task,  \* LGDevice._update_task and the position of that task
    live_tasks,   \* poll tasks created and neither ended nor cancelled
    update_lock,  \* LGDevice._update_lock.locked()
    tasks,        \* tasks of handle_response created and not yet run
    received,     \* the responses data_received decoded, in order
    retry,        \* LGDevice._reconnect_retry
    op,           \* the operation that ran last, with its input and its outcome
    prev,         \* dev as it was when the last operation started
    events,       \* the events the last operation emitted, in order
    sent,         \* the packets the last operation wrote to the connection
    offRun,       \* consecutive poll iterations that saw _power_state false
    steps         \* operations run so far (bounds the exploration)

vars == <<dev, transport, connected, always_on, update_task, live_tasks,
          update_lock, tasks, received, retry, op, prev, events, sent,
          offRun, steps>>

None == "None"

-----------------------------------------------------------------------------
(* lglib.py: the static lookup tables.                                     *)

equalisers ==
    << "Standard", "Bass", "Flat", "Boost", "Treble and Bass", "User",
       "Music", "Cinema", "Night", "News", "Voice", "ia_sound",
       "Adaptive Sound Control", "Movie", "Bass Blast", "Dolby Atmos",
       "DTS Virtual X", "Bass Boost Plus", "DTS X", "AI Sound Pro",
       "Clear Voice", "Sports", "Game" >>

functions ==
    << "Wi-Fi", "Bluetooth", "Portable", "Aux", "Optical", "CP", "HDMI",
       "ARC", "Spotify", "Optical2", "HDMI2", "HDMI3", "LG TV", "Mic",
       "Chromecast", "Optical/HDMI ARC", "LG Optical", "FM", "USB", "USB2",
       "E-ARC" >>

(* Python compares strings by code point.  equalisersRank[i] is the place *)
(* of equalisers[i] in sorted(equalisers), and likewise for functions;    *)
(* neither table has a duplicate.                                         *)
equalisersRank ==
    << 19, 3, 12, 6, 20, 21, 15, 7, 17, 16, 22, 23, 2, 14, 4, 11, 9, 5, 10,
       1, 8, 18, 13 >>

functionsRank ==
    << 21, 3, 17, 2, 14, 4, 8, 1, 18, 16, 9, 10, 12, 13, 5, 15, 11, 7, 19,
       20, 6 >>

(* table[i] as Python evaluates it: a negative i counts from the end.      *)
(* The indices of the model stay within -Len(table) .. Len(table) - 1      *)
(* wherever the code indexes, so no IndexError is raised.                  *)
PyIndex(table, i) ==
    IF i >= 0 THEN table[i + 1] ELSE table[Len(table) + i + 1]

(* Place of name in table (1-based), 0 when it is not there.               *)
PlaceOf(table, name) ==
    IF \E k \in 1..Len(table) : table[k] = name
    THEN CHOOSE k \in 1..Len(table) : table[k] = name
    ELSE 0

(* sorted(names) for names of one table, by the table's rank.              *)
RECURSIVE InsertSorted(_, _, _, _)
InsertSorted(table, rank, sorted, name) ==
    IF sorted = << >> THEN << name >>
    ELSE IF rank[PlaceOf(table, name)] <= rank[PlaceOf(table, Head(sorted))]
         THEN << name >> \o sorted
         ELSE << Head(sorted) >> \o InsertSorted(table, rank, Tail(sorted), name)

RECURSIVE PySorted(_, _, _)
PySorted(table, rank, names) ==
    IF names = << >> THEN << >>
    ELSE InsertSorted(table, rank, PySorted(table, rank, Tail(names)), Head(names))

(* [table[i] for i in idxs if i < len(table)], the generator of the two    *)
(* list accessors.                                                         *)
RECURSIVE NamesBelowLen(_, _)
NamesBelowLen(table, idxs) ==
    IF idxs = << >> THEN << >>
    ELSE IF Head(idxs) < Len(table)
         THEN << PyIndex(table, Head(idxs)) >> \o NamesBelowLen(table, Tail(idxs))
         ELSE NamesBelowLen(table, Tail(idxs))

-----------------------------------------------------------------------------
(* Exact rationals for Python floats.                                      *)

Abs(x) == IF x < 0 THEN -x ELSE x

RECURSIVE Gcd(_, _)
Gcd(a, b) == IF b = 0 THEN a ELSE Gcd(b, a % b)

(* n / d for d # 0, in lowest terms with a positive denominator.           *)
Rat(n, d) ==
    LET g == Gcd(Abs(n), Abs(d))
        s == IF d < 0 THEN -1 ELSE 1
    IN  << s * (n \div g) , Abs(d) \div g >>

RatOfInt(i) == << i, 1 >>

RatAdd(a, b) == Rat(a[1] * b[2] + b[1] * a[2], a[2] * b[2])

RatLess(a, b) == a[1] * b[2] < b[1] * a[2]

(* min(a, b) and max(a, b) of Python: the first argument unless the second *)
(* is strictly smaller (larger).                                           *)
RatMin(a, b) == IF RatLess(b, a) THEN b ELSE a
RatMax(a, b) == IF RatLess(a, b) THEN b ELSE a

(* int(x): truncation towards zero.                                        *)
IntOf(a) == IF a[1] >= 0 THEN a[1] \div a[2] ELSE -((-a[1]) \div a[2])

-----------------------------------------------------------------------------
(* client.py: the accessors of LGDevice.                                   *)

play_state(d) ==
    IF d._stream_type = 0 THEN "UNKNOWN"
    ELSE IF d._play_control = 1 THEN "PAUSED"
    ELSE "PLAYING"

(* The getter also stores OFF or ON in self._state; nothing reads that     *)
(* field before the getter writes it again, so it is a local here.         *)
state(d) ==
    LET _state == IF ~d._power_state THEN "OFF" ELSE "ON"
    IN  IF play_state(d) # "UNKNOWN" THEN play_state(d) ELSE _state

(* volume with the range taken signed, as 100 * |raw - min| / (max - min). *)
volume_signed_range(d) ==
    IF d._volume_max - d._volume_min = 0 THEN RatOfInt(0)
    ELSE Rat(100 * Abs(d._volume[1] - d._volume_min * d._volume[2]),
             d._volume[2] * (d._volume_max - d._volume_min))

volume(d) ==
    IF d._volume_max - d._volume_min = 0 THEN RatOfInt(0)
    ELSE Rat(100 * Abs(d._volume[1] - d._volume_min * d._volume[2]),
             d._volume[2] * Abs(d._volume_max - d._volume_min))

muted(d) == d._mute

source(d) ==
    IF d._function = -1 \/ d._function >= Len(functions) THEN None
    ELSE PyIndex(functions, d._function)

source_list(d) ==
    PySorted(functions, functionsRank, NamesBelowLen(functions, d._functions))

sound_mode(d) ==
    IF d._equaliser = -1 \/ d._equaliser >= Len(equalisers) THEN None
    ELSE PyIndex(equalisers, d._equaliser)

sound_mode_list(d) ==
    PySorted(equalisers, equalisersRank, NamesBelowLen(equalisers, d._equalisers))

media_artist(d) == d._media_artist
media_title(d) == d._media_title
media_image_url(d) == d._media_artwork
media_position(d) == d._media_position
media_duration(d) == d._media_duration

-----------------------------------------------------------------------------
(* Python dict helpers.                                                    *)

EmptyDict == [k \in {} |-> 0]

Has(data, k) == k \in DOMAIN data

(* m[k] = v on a dict.                                                     *)
Put(m, k, v) == [x \in (DOMAIN m) \cup {k} |-> IF x = k THEN v ELSE m[x]]

(* data[k] if k in data else old                                           *)
Merge(data, k, old) == IF Has(data, k) THEN data[k] ELSE old

InList(x, list) == \E i \in 1..Len(list) : list[i] = x

-----------------------------------------------------------------------------
(* client.py: LGDevice.__init__, the fields handle_event and the facade    *)
(* read and write.                                                         *)

InitDev ==
    [ _volume |-> RatOfInt(0), _volume_min |-> 0, _volume_max |-> 0,
      _volume_step |-> RatOfInt(1),
      _power_state |-> FALSE,
      _function |-> -1, _functions |-> << >>,
      _equaliser |-> -1, _equalisers |-> << >>,
      _mute |-> FALSE,
      _rear_volume |-> 0, _rear_volume_min |-> 0, _rear_volume_max |-> 0,
      _woofer_volume |-> 0, _woofer_volume_min |-> 0, _woofer_volume_max |-> 0,
      _bass |-> 0, _treble |-> 0,
      _media_artist |-> "", _media_title |-> "",
      _media_position |-> 0, _media_duration |-> 0, _media_artwork |-> "",
      _device_name |-> "LG",
      _night_mode |-> FALSE, _auto_volume_control |-> FALSE,
      _dynamic_range_reduction |-> FALSE, _neural_x |-> FALSE,
      _tv_remote |-> FALSE, _auto_display |-> FALSE,
      _stream_type |-> 0, _play_control |-> 0,
      _serial_number |-> None ]

(* check_source: the known-source list after the call, and its result.     *)
check_source_list(d, source_id) ==
    IF ~InList(source_id, d._functions)
    THEN Append(d._functions, source_id)
    ELSE d._functions

check_source(d, source_id) == ~InList(source_id, d._functions)

-----------------------------------------------------------------------------
(* client.py: LGDevice.handle_event, one operator per branch.  Each gives  *)
(* the fields after the branch and the update_data it collected.           *)

handle_EQ_VIEW_INFO(d, data) ==
    LET d1 == [d EXCEPT !._bass = Merge(data, "i_bass", @),
                        !._treble = Merge(data, "i_treble", @)]
        newList == Has(data, "ai_eq_list")
                   /\ Len(d1._equalisers) # Len(data["ai_eq_list"])
        d2 == IF newList THEN [d1 EXCEPT !._equalisers = data["ai_eq_list"]] ELSE d1
        u2 == IF newList THEN Put(EmptyDict, "sound_mode_list", sound_mode_list(d2))
              ELSE EmptyDict
        newEq == Has(data, "i_curr_eq") /\ d2._equaliser # data["i_curr_eq"]
        d3 == IF newEq THEN [d2 EXCEPT !._equaliser = data["i_curr_eq"]] ELSE d2
        u3 == IF newEq THEN Put(u2, "sound_mode", sound_mode(d3)) ELSE u2
    IN  [dev |-> d3, update_data |-> u3]

handle_SPK_LIST_VIEW_INFO(d, data) ==
    LET current_volume == volume(d)
        current_mute == muted(d)
        current_state == state(d)
        d1 == [d EXCEPT !._power_state = Merge(data, "b_powerstatus", @),
                        !._volume = IF Has(data, "i_vol")
                                    THEN RatOfInt(data["i_vol"]) ELSE @,
                        !._volume_min = Merge(data, "i_vol_min", @),
                        !._volume_max = Merge(data, "i_vol_max", @),
                        !._mute = Merge(data, "b_mute", @),
                        !._function = Merge(data, "i_curr_func", @)]
        added == Has(data, "i_curr_func") /\ check_source(d1, d1._function)
        d2 == IF Has(data, "i_curr_func")
              THEN [d1 EXCEPT !._functions = check_source_list(d1, d1._function)]
              ELSE d1
        u1 == IF added THEN Put(EmptyDict, "source_list", source_list(d2))
              ELSE EmptyDict
        u2 == IF current_state # state(d2) THEN Put(u1, "state", state(d2)) ELSE u1
        u3 == IF current_volume # volume(d2) THEN Put(u2, "volume", volume(d2)) ELSE u2
        u4 == IF current_mute # muted(d2) THEN Put(u3, "muted", muted(d2)) ELSE u3
    IN  [dev |-> d2, update_data |-> u4]

handle_FUNC_VIEW_INFO(d, data) ==
    LET current_source == source(d)
        current_functions == source_list(d)
        d1 == [d EXCEPT !._function = Merge(data, "i_curr_func", @)]
        added == Has(data, "i_curr_func") /\ check_source(d1, d1._function)
        d2 == IF Has(data, "i_curr_func")
              THEN [d1 EXCEPT !._functions = check_source_list(d1, d1._function)]
              ELSE d1
        u1 == IF added THEN Put(EmptyDict, "source_list", source_list(d2))
              ELSE EmptyDict
        d3 == IF Has(data, "ai_func_list")
                 /\ Len(data["ai_func_list"]) > Len(d2._functions)
              THEN [d2 EXCEPT !._functions = data["ai_func_list"]]
              ELSE d2
        u2 == IF current_source # source(d3) THEN Put(u1, "source", source(d3)) ELSE u1
        u3 == IF Len(current_functions) # Len(source_list(d3))
              THEN Put(u2, "source_list", source_list(d3)) ELSE u2
    IN  [dev |-> d3, update_data |-> u3]

handle_SETTING_VIEW_INFO(d, data) ==
    [dev |-> [d EXCEPT
        !._rear_volume_min = Merge(data, "i_rear_min", @),
        !._rear_volume_max = Merge(data, "i_rear_max", @),
        !._rear_volume = Merge(data, "i_rear_level", @),
        !._woofer_volume_min = Merge(data, "i_woofer_min", @),
        !._woofer_volume_max = Merge(data, "i_woofer_max", @),
        !._woofer_volume = Merge(data, "i_woofer_level", @),
        !._equaliser = Merge(data, "i_curr_eq", @),
        !._device_name = Merge(data, "s_user_name", @),
        !._night_mode = Merge(data, "b_night_mode", @),
        !._auto_volume_control = Merge(data, "b_auto_vol", @),
        !._dynamic_range_reduction = Merge(data, "b_drc", @),
        !._neural_x = Merge(data, "b_neuralx", @),
        !._tv_remote = Merge(data, "b_tv_remote", @),
        !._auto_display = Merge(data, "b_auto_display", @)],
     update_data |-> EmptyDict]

(* The -1 a device reports for an unknown position or duration is kept as 0. *)
MinusOneAsZero(v) == IF v = -1 THEN 0 ELSE v

handle_PLAY_INFO(d, data) ==
    LET current_title == media_title(d)
        current_artist == media_artist(d)
        current_position == media_position(d)
        current_duration == media_duration(d)
        current_artwork == media_image_url(d)
        d1 == [d EXCEPT
                !._media_title = Merge(data, "s_title", @),
                !._media_artist = Merge(data, "s_artist", @),
                !._media_position = IF Has(data, "i_position")
                                    THEN MinusOneAsZero(data["i_position"]) ELSE @,
                !._media_duration = IF Has(data, "i_duration")
                                    THEN MinusOneAsZero(data["i_duration"]) ELSE @,
                !._media_artwork = Merge(data, "s_albumart", @),
                !._stream_type = Merge(data, "i_stream_type", @),
                !._play_control = Merge(data, "i_play_ctrl", @)]
        u1 == IF current_title # media_title(d1)
              THEN Put(EmptyDict, "media_title", media_title(d1)) ELSE EmptyDict
        u2 == IF current_artist # media_artist(d1)
              THEN Put(u1, "media_artist", media_artist(d1)) ELSE u1
        u3 == IF current_position # media_position(d1)
              THEN Put(u2, "media_position", media_position(d1)) ELSE u2
        u4 == IF current_duration # media_duration(d1)
              THEN Put(u3, "media_duration", media_duration(d1)) ELSE u3
        u5 == IF current_artwork # media_image_url(d1)
              THEN Put(u4, "media_image_url", media_image_url(d1)) ELSE u4
    IN  [dev |-> d1, update_data |-> u5]

(* handle_PRODUCT_INFO storing data.get("s_uuid") without the key test.    *)
handle_PRODUCT_INFO_unguarded(d, data) ==
    [dev |-> [d EXCEPT !._serial_number =
                            IF Has(data, "s_uuid") THEN data["s_uuid"] ELSE None],
     update_data |-> EmptyDict]

handle_PRODUCT_INFO(d, data) ==
    [dev |-> [d EXCEPT !._serial_number = Merge(data, "s_uuid", @)],
     update_data |-> EmptyDict]

(* handle_event(response): data = response.get("data") or {}, then the     *)
(* branch of response["msg"]; any other msg falls through every branch.    *)
handle_event(d, response) ==
    LET data == response.data
        msg == response.msg
    IN  IF msg = "EQ_VIEW_INFO" THEN handle_EQ_VIEW_INFO(d, data)
        ELSE IF msg = "SPK_LIST_VIEW_INFO" THEN handle_SPK_LIST_VIEW_INFO(d, data)
        ELSE IF msg = "FUNC_VIEW_INFO" THEN handle_FUNC_VIEW_INFO(d, data)
        ELSE IF msg = "SETTING_VIEW_INFO" THEN handle_SETTING_VIEW_INFO(d, data)
        ELSE IF msg = "PLAY_INFO" THEN handle_PLAY_INFO(d, data)
        ELSE IF msg = "PRODUCT_INFO" THEN handle_PRODUCT_INFO(d, data)
        ELSE [dev |-> d, update_data |-> EmptyDict]

(* The events handle_event emits: one UPDATE when update_data is not empty. *)
UpdateEvents(update_data) ==
    IF DOMAIN update_data # {}
    THEN << [event |-> "UPDATE", data |-> update_data] >>
    ELSE << >>

-----------------------------------------------------------------------------
(* lglib.py: Temescal, the transport.                                      *)

(* What send_packet writes: nothing without a connection, else the packet. *)
send_packet(tr, packet) == IF tr = None THEN << >> ELSE << packet >>

Get(msg) == [cmd |-> "get", msg |-> msg]
Set(msg, data) == [cmd |-> "set", msg |-> msg, data |-> data]

power(tr, value) ==
    send_packet(tr, Set("SPK_LIST_VIEW_INFO", [b_powerkey |-> value]))
set_mute(tr, enable) ==
    send_packet(tr, Set("SPK_LIST_VIEW_INFO", [b_mute |-> enable]))
set_func(tr, value) ==
    send_packet(tr, Set("FUNC_VIEW_INFO", [i_curr_func |-> value]))
set_volume(tr, value) ==
    send_packet(tr, Set("SPK_LIST_VIEW_INFO", [i_vol |-> value]))
set_eq(tr, eq) ==
    send_packet(tr, Set("EQ_VIEW_INFO", [i_curr_eq |-> eq]))
get_eq(tr) == send_packet(tr, Get("EQ_VIEW_INFO"))
get_info(tr) == send_packet(tr, Get("SPK_LIST_VIEW_INFO"))
get_func(tr) == send_packet(tr, Get("FUNC_VIEW_INFO"))
get_settings(tr) == send_packet(tr, Get("SETTING_VIEW_INFO"))
get_play(tr) == send_packet(tr, Get("PLAY_INFO"))
get_product_info(tr) == send_packet(tr, Get("PRODUCT_INFO"))

(* disconnect that leaves the transport where it is.                       *)
disconnect_transport_kept(tr) == tr

(* Temescal.disconnect: the transport and the connected flag afterwards.   *)
disconnect_transport(tr) == None
disconnect_connected(tr, conn) == IF tr # None THEN FALSE ELSE conn

-----------------------------------------------------------------------------
(* client.py: polling.                                                     *)

CONNECTION_RETRIES == 10

(* LGDevice.update(full).  The update lock is taken and released with no   *)
(* suspension in between, so it is free whenever update() is entered.      *)
(* self._device.connect() builds the coroutine of Temescal.connect and     *)
(* drops it without awaiting it: the transport is as it was.               *)
update(tr, full) ==
    get_eq(tr) \o get_info(tr) \o get_func(tr) \o get_settings(tr) \o get_play(tr)
    \o (IF full THEN get_product_info(tr) ELSE << >>)

(* update(full) from its test of the lock: a pass that finds the lock      *)
(* taken returns and leaves it; a pass that takes it acquires it without   *)
(* suspending, writes its requests and releases it.                        *)
update_pass_unreleased(lock, tr, full) ==
    IF lock THEN [sent |-> << >>, lock |-> lock]
    ELSE [sent |-> update(tr, full), lock |-> tr = None]

update_pass(lock, tr, full) ==
    IF lock THEN [sent |-> << >>, lock |-> lock]
    ELSE [sent |-> update(tr, full), lock |-> FALSE]

(* The live poll tasks after start_polling: create_task adds one when no   *)
(* task is registered.                                                     *)
live_after_start(task, live) == IF task # None THEN live ELSE live + 1

(* stop_polling that clears the handle and leaves the task running.        *)
live_after_stop_uncancelled(task, live) == live

(* The live poll tasks after stop_polling: cancel() ends the registered    *)
(* task, where it waits, before the handle is cleared.                     *)
live_after_stop(task, live) == IF task # None THEN live - 1 ELSE live

(* start_polling with its test inverted: it never creates a task.          *)
start_polling_inverted(task) == task

(* start_polling: the task handle afterwards.                              *)
start_polling(task) == IF task # None THEN task ELSE "created"

(* The loop counting off iterations whatever always_on says.               *)
poll_decision_for_all(ao, st, r) ==
    IF st = "OFF"
    THEN [retry |-> r + 1, stop |-> r + 1 > CONNECTION_RETRIES]
    ELSE [retry |-> 0, stop |-> FALSE]

(* The loop never clearing its counter when the device is seen on.         *)
poll_decision_no_reset(ao, st, r) ==
    IF ~ao /\ st = "OFF"
    THEN [retry |-> r + 1, stop |-> r + 1 > CONNECTION_RETRIES]
    ELSE [retry |-> r, stop |-> FALSE]

(* The loop giving up one iteration later.                                  *)
poll_decision_late_stop(ao, st, r) ==
    IF ~ao
    THEN IF st = "OFF"
         THEN [retry |-> r + 1, stop |-> r + 1 > CONNECTION_RETRIES + 1]
         ELSE [retry |-> 0, stop |-> FALSE]
    ELSE [retry |-> r, stop |-> FALSE]

(* One pass of the while loop of _background_update_task up to its break   *)
(* or its update(): r is the counter at the top of the loop.               *)
poll_decision(ao, st, r) ==
    IF ~ao
    THEN IF st = "OFF"
         THEN [retry |-> r + 1, stop |-> r + 1 > CONNECTION_RETRIES]
         ELSE [retry |-> 0, stop |-> FALSE]
    ELSE [retry |-> r, stop |-> FALSE]

(* cmd_wrapper around a command whose body ended with outcome:             *)
(*   "ok"          it returned (whatever it returned)                      *)
(*   "ClientError" it raised aiohttp.ClientError; the handler then reads   *)
(*                 obj.event_loop, which LGDevice does not define, so an   *)
(*                 AttributeError leaves the wrapper                       *)
(*   "Exception"   it raised anything else: logged, None is returned       *)
cmd_wrapper(outcome) ==
    IF outcome = "ok" THEN "OK"
    ELSE IF outcome = "ClientError" THEN "raises AttributeError"
    ELSE None

-----------------------------------------------------------------------------
(* The responses a device may send.  A payload is partial: every subset of *)
(* the keys of a full payload is a payload too; the sets below hold, for   *)
(* each full payload, the payload itself, the empty one and every one-key  *)
(* part of it.                                                             *)

Restrict(full, keys) == [k \in keys |-> full[k]]

PartsOf(fulls, keys) ==
    fulls \cup {EmptyDict} \cup { Restrict(full, {k}) : full \in fulls, k \in keys }

EqKeys == {"i_bass", "i_treble", "ai_eq_list", "i_curr_eq"}
EqFull ==
    { [i_bass |-> 3, i_treble |-> 4, ai_eq_list |-> << 1, 0 >>, i_curr_eq |-> 0],
      [i_bass |-> 0, i_treble |-> 0, ai_eq_list |-> << 6, 7 >>, i_curr_eq |-> 6],
      [i_bass |-> 3, i_treble |-> 0, ai_eq_list |-> << 23, -1, 6 >>, i_curr_eq |-> 23],
      [i_bass |-> 0, i_treble |-> 4, ai_eq_list |-> << >>, i_curr_eq |-> -1] }

SpkKeys == {"b_powerstatus", "i_vol", "i_vol_min", "i_vol_max", "b_mute", "i_curr_func"}
SpkFull ==
    { [b_powerstatus |-> TRUE, i_vol |-> 50, i_vol_min |-> 0, i_vol_max |-> 100,
       b_mute |-> FALSE, i_curr_func |-> 6],
      [b_powerstatus |-> FALSE, i_vol |-> 5, i_vol_min |-> 10, i_vol_max |-> 0,
       b_mute |-> TRUE, i_curr_func |-> -1],
      [b_powerstatus |-> TRUE, i_vol |-> 7, i_vol_min |-> 4, i_vol_max |-> 4,
       b_mute |-> TRUE, i_curr_func |-> 21],
      [b_powerstatus |-> TRUE, i_vol |-> 1, i_vol_min |-> 0, i_vol_max |-> 3,
       b_mute |-> FALSE, i_curr_func |-> 0] }

FuncKeys == {"i_curr_func", "ai_func_list"}
FuncFull ==
    { [i_curr_func |-> 6, ai_func_list |-> << 6, 0 >>],
      [i_curr_func |-> 0, ai_func_list |-> << 4, 6 >>],
      [i_curr_func |-> 21, ai_func_list |-> << 21, -1, 6 >>],
      [i_curr_func |-> -1, ai_func_list |-> << 7, 6, 0, 1 >>],
      [i_curr_func |-> -2, ai_func_list |-> << >>] }

SettingKeys ==
    {"i_rear_min", "i_rear_max", "i_rear_level", "i_woofer_min", "i_woofer_max",
     "i_woofer_level", "i_curr_eq", "s_user_name", "b_night_mode", "b_auto_vol",
     "b_drc", "b_neuralx", "b_tv_remote", "b_auto_display"}
SettingFull ==
    { [i_rear_min |-> -6, i_rear_max |-> 6, i_rear_level |-> 2,
       i_woofer_min |-> -15, i_woofer_max |-> 6, i_woofer_level |-> 1,
       i_curr_eq |-> 6, s_user_name |-> "Living room",
       b_night_mode |-> TRUE, b_auto_vol |-> TRUE, b_drc |-> TRUE,
       b_neuralx |-> TRUE, b_tv_remote |-> TRUE, b_auto_display |-> TRUE] }
(* The payload of a device with every setting at its default.              *)
SettingDefaults ==
    [i_rear_min |-> 0, i_rear_max |-> 0, i_rear_level |-> 0,
     i_woofer_min |-> 0, i_woofer_max |-> 0, i_woofer_level |-> 0,
     i_curr_eq |-> -1, s_user_name |-> "LG",
     b_night_mode |-> FALSE, b_auto_vol |-> FALSE, b_drc |-> FALSE,
     b_neuralx |-> FALSE, b_tv_remote |-> FALSE, b_auto_display |-> FALSE]

PlayKeys ==
    {"s_title", "s_artist", "i_position", "i_duration", "s_albumart",
     "i_stream_type", "i_play_ctrl"}
PlayFull ==
    { [s_title |-> "Song", s_artist |-> "Band", i_position |-> 12,
       i_duration |-> 180, s_albumart |-> "http://art", i_stream_type |-> 4,
       i_play_ctrl |-> 0],
      [s_title |-> "Song", s_artist |-> "", i_position |-> -1,
       i_duration |-> -1, s_albumart |-> "", i_stream_type |-> 1,
       i_play_ctrl |-> 1],
      [s_title |-> "", s_artist |-> "", i_position |-> 0,
       i_duration |-> 0, s_albumart |-> "", i_stream_type |-> 0,
       i_play_ctrl |-> 0] }

ProductKeys == {"s_uuid"}
ProductFull == { [s_uuid |-> "uuid-1"] }

Responses(msg, fulls, keys) ==
    { [msg |-> msg, data |-> data] : data \in PartsOf(fulls, keys) }

EqResponses == Responses("EQ_VIEW_INFO", EqFull, EqKeys)
SpkResponses == Responses("SPK_LIST_VIEW_INFO", SpkFull, SpkKeys)
FuncResponses == Responses("FUNC_VIEW_INFO", FuncFull, FuncKeys)
SettingResponses ==
    Responses("SETTING_VIEW_INFO", SettingFull, SettingKeys)
    \cup { [msg |-> "SETTING_VIEW_INFO", data |-> SettingDefaults] }
PlayResponses == Responses("PLAY_INFO", PlayFull, PlayKeys)
ProductResponses == Responses("PRODUCT_INFO", ProductFull, ProductKeys)
(* A msg no branch of handle_event names, with the keys of another msg.    *)
OtherResponses ==
    Responses("C4A_SETTING_INFO",
              { [b_powerstatus |-> TRUE, i_vol |-> 50, i_curr_func |-> 6] },
              {"i_vol"})

(* The responses of the lifecycle specification: power and playback.       *)
LinkResponses ==
    { [msg |-> "SPK_LIST_VIEW_INFO", data |-> [b_powerstatus |-> b]] : b \in BOOLEAN }
    \cup { [msg |-> "PLAY_INFO", data |-> [i_stream_type |-> t]] : t \in {0, 4} }

-----------------------------------------------------------------------------
(* Bounds.                                                                 *)

MaxApplies == 2      \* responses applied in a run of SpecApply

-----------------------------------------------------------------------------
(* The state after construction: LGDevice.__init__ and Temescal.__init__.  *)

(* What an operation leaves in op: its name, its input, what it returned,  *)
(* and the transport, task handle and counter it started from.             *)
OpRec(name, arg, result) ==
    [name |-> name, arg |-> arg, result |-> result,
     transport |-> transport, connected |-> connected,
     task |-> update_task, retry |-> retry]

Init ==
    /\ dev = InitDev
    /\ transport = None
    /\ connected = FALSE
    /\ always_on \in BOOLEAN
    /\ update_task = None
    /\ live_tasks = 0
    /\ update_lock = FALSE
    /\ tasks = << >>
    /\ received = << >>
    /\ retry = 0
    /\ op = [name |-> "init", arg |-> None, result |-> None,
             transport |-> None, connected |-> FALSE,
             task |-> None, retry |-> 0]
    /\ prev = InitDev
    /\ events = << >>
    /\ sent = << >>
    /\ offRun = 0
    /\ steps = 0

Min(a, b) == IF a < b THEN a ELSE b

(* offRun after start_polling: a task that is created has seen nothing.    *)
OffRunAfterStart(task) == IF task = None THEN 0 ELSE offRun

-----------------------------------------------------------------------------
(* Temescal.handle_response -> LGDevice.handle_event(response)             *)

Apply(response) ==
    LET h == handle_event(dev, response)
    IN  /\ dev' = h.dev
        /\ prev' = dev
        /\ events' = UpdateEvents(h.update_data)
        /\ sent' = << >>
        /\ op' = OpRec("handle_event", response, None)
        /\ UNCHANGED <<transport, connected, always_on, update_task, live_tasks, update_lock, tasks, received, retry, offRun>>

(* data_received with a frame of the device: the decoded response is       *)
(* handed to handle_event in a task of its own.                            *)
DataReceived ==
    /\ transport # None
    /\ \E response \in LinkResponses : Apply(response)
    /\ UNCHANGED steps

(* data_received with no bytes: the transport is closed and forgotten,     *)
(* the connected flag is left as it is, and the coroutine of connect() is  *)
(* built and dropped.                                                      *)
DataReceivedEmpty ==
    /\ transport # None
    /\ transport' = None
    /\ op' = OpRec("data_received", "empty", None)
    /\ prev' = dev
    /\ events' = << >>
    /\ sent' = << >>
    /\ UNCHANGED <<dev, connected, always_on, update_task, live_tasks, update_lock, tasks, received, retry, offRun, steps>>

-----------------------------------------------------------------------------
(* Temescal.connect, awaited.  Nothing in client.py awaits it; a user of   *)
(* the library does.  create_connection succeeds or fails.                 *)
TemescalConnect ==
    /\ \E ok \in BOOLEAN :
          /\ transport' = IF transport # None THEN transport
                          ELSE IF ok THEN "open" ELSE None
          /\ connected' = IF transport = None /\ ok THEN TRUE ELSE connected
          /\ op' = OpRec("Temescal.connect", IF ok THEN "ok" ELSE "refused", None)
    /\ prev' = dev
    /\ events' = << >>
    /\ sent' = << >>
    /\ UNCHANGED <<dev, always_on, update_task, live_tasks, update_lock, tasks, received, retry, offRun, steps>>

(* A disconnect that also forgets the volume.                              *)
DisconnectForgetting ==
    /\ transport' = disconnect_transport(transport)
    /\ connected' = disconnect_connected(transport, connected)
    /\ dev' = [dev EXCEPT !._volume = RatOfInt(0)]
    /\ op' = OpRec("disconnect", None, None)
    /\ prev' = dev
    /\ events' = << >>
    /\ sent' = << >>
    /\ UNCHANGED <<always_on, update_task, live_tasks, update_lock, tasks, received, retry, offRun, steps>>

(* LGDevice.disconnect -> Temescal.disconnect                              *)
Disconnect ==
    /\ transport' = disconnect_transport(transport)
    /\ connected' = disconnect_connected(transport, connected)
    /\ op' = OpRec("disconnect", None, None)
    /\ prev' = dev
    /\ events' = << >>
    /\ sent' = << >>
    /\ UNCHANGED <<dev, always_on, update_task, live_tasks, update_lock, tasks, received, retry, offRun, steps>>

(* LGDevice.connect: update(), start_polling(), emit CONNECTED.            *)
Connect ==
    /\ sent' = update_pass(update_lock, transport, FALSE).sent
    /\ update_lock' = update_pass(update_lock, transport, FALSE).lock
    /\ UNCHANGED <<tasks, received>>
    /\ update_task' = start_polling(update_task)
    /\ live_tasks' = live_after_start(update_task, live_tasks)
    /\ offRun' = OffRunAfterStart(update_task)
    /\ events' = << [event |-> "CONNECTED", data |-> EmptyDict] >>
    /\ op' = OpRec("connect", None, None)
    /\ prev' = dev
    /\ UNCHANGED <<dev, transport, connected, always_on, retry, steps>>

(* LGDevice.start_polling, called directly.                                *)
StartPolling ==
    /\ update_task' = start_polling(update_task)
    /\ live_tasks' = live_after_start(update_task, live_tasks)
    /\ UNCHANGED <<update_lock, tasks, received>>
    /\ offRun' = OffRunAfterStart(update_task)
    /\ op' = OpRec("start_polling", None, None)
    /\ prev' = dev
    /\ events' = << >>
    /\ sent' = << >>
    /\ UNCHANGED <<dev, transport, connected, always_on, retry, steps>>

(* LGDevice.stop_polling: the task is cancelled where it waits (before its *)
(* first statement, or in its sleep) and the handle is cleared.            *)
StopPolling ==
    /\ update_task' = None
    /\ live_tasks' = live_after_stop(update_task, live_tasks)
    /\ UNCHANGED <<update_lock, tasks, received>>
    /\ op' = OpRec("stop_polling", None, None)
    /\ prev' = dev
    /\ events' = << >>
    /\ sent' = << >>
    /\ UNCHANGED <<dev, transport, connected, always_on, retry, offRun, steps>>

(* _background_update_task, from where the task waits (its creation, or    *)
(* the sleep that ends a pass) to its next sleep or to its end.  Nothing   *)
(* in between suspends.                                                    *)
PollIteration ==
    /\ update_task # None
    /\ UNCHANGED <<tasks, received>>
    /\ LET first == update_task = "created"
           r0 == IF first THEN 0 ELSE retry
           dec == poll_decision(always_on, state(dev), r0)
       IN  /\ retry' = dec.retry
           /\ IF dec.stop
              THEN /\ transport' = IF ~always_on
                                   THEN disconnect_transport(transport)
                                   ELSE transport
                   /\ connected' = IF ~always_on
                                   THEN disconnect_connected(transport, connected)
                                   ELSE connected
                   /\ update_task' = None
                   /\ live_tasks' = live_tasks - 1
                   /\ sent' = << >>
                   /\ UNCHANGED update_lock
              ELSE /\ UNCHANGED <<transport, connected, live_tasks>>
                   /\ update_task' = "sleeping"
                   /\ sent' = update_pass(update_lock, transport, FALSE).sent
                   /\ update_lock' = update_pass(update_lock, transport, FALSE).lock
           /\ op' = OpRec("poll", IF first THEN "first" ELSE "again",
                        IF dec.stop THEN "stopped" ELSE "polled")
    /\ offRun' = IF ~dev._power_state
                 THEN Min(offRun + 1, CONNECTION_RETRIES + 1) ELSE 0
    /\ prev' = dev
    /\ events' = << >>
    /\ UNCHANGED <<dev, always_on, steps>>

-----------------------------------------------------------------------------
(* client.py: the command facade.  A command body gives its outcome (see   *)
(* cmd_wrapper), the packets it wrote and the UPDATE it emitted itself.     *)

Body(outcome, packets, evs) == [outcome |-> outcome, sent |-> packets, events |-> evs]

turn_on(d, tr) == Body("ok", power(tr, TRUE), << >>)

turn_off(d, tr) == Body("ok", power(tr, FALSE), << >>)

toggle(d, tr) ==
    IF state(d) = "OFF" THEN Body("ok", power(tr, TRUE), << >>)
    ELSE Body("ok", power(tr, FALSE), << >>)

(* send_command(command) for the power commands of the media player:      *)
(* Commands.ON, Commands.OFF and Commands.TOGGLE.                          *)
PowerCommands == {"on", "off", "toggle"}

send_command(d, tr, command) ==
    IF command = "on" THEN Body("ok", power(tr, TRUE), << >>)
    ELSE IF command = "off" THEN Body("ok", power(tr, FALSE), << >>)
    ELSE IF state(d) = "OFF" THEN Body("ok", power(tr, FALSE), << >>)
    ELSE Body("ok", power(tr, TRUE), << >>)

mute(d, tr, m) ==
    Body("ok", set_mute(tr, m), UpdateEvents(Put(EmptyDict, "muted", m)))

mute_toggle(d, tr) ==
    LET m == ~muted(d)
    IN  Body("ok", set_mute(tr, m), UpdateEvents(Put(EmptyDict, "muted", m)))

(* functions.index(source) raises ValueError for a name not in the table.  *)
select_source(d, tr, src) ==
    IF src = None THEN Body("ok", << >>, << >>)
    ELSE IF PlaceOf(functions, src) = 0 THEN Body("Exception", << >>, << >>)
    ELSE Body("ok", set_func(tr, PlaceOf(functions, src) - 1), << >>)

select_sound_mode(d, tr, mode) ==
    IF PlaceOf(equalisers, mode) = 0 THEN Body("Exception", << >>, << >>)
    ELSE Body("ok", set_eq(tr, PlaceOf(equalisers, mode) - 1), << >>)

(* The volume commands also write _volume: their bodies carry the fields   *)
(* of the device as they leave them.                                       *)
VolumeBody(outcome, packets, evs, d) ==
    [outcome |-> outcome, sent |-> packets, events |-> evs, dev |-> d]

(* _volume_step * (_volume_max - _volume_min) / 100                        *)
StepOf(d) ==
    Rat(d._volume_step[1] * (d._volume_max - d._volume_min),
        d._volume_step[2] * 100)

(* The store and the emit made only when the packet was written.           *)
StoreVolume_if_written(d, tr, vol) ==
    LET d1 == IF tr = None THEN d ELSE [d EXCEPT !._volume = vol]
    IN  VolumeBody("ok", set_volume(tr, IntOf(vol)),
                   IF tr = None THEN << >>
                   ELSE << [event |-> "UPDATE",
                            data |-> Put(EmptyDict, "volume", volume(d1))] >>, d1)

(* The body from the clamped value on: set_volume(int(volume)), the store  *)
(* and the emit, which no test precedes.                                   *)
StoreVolume(d, tr, vol) ==
    LET d1 == [d EXCEPT !._volume = vol]
    IN  VolumeBody("ok", set_volume(tr, IntOf(vol)),
                   << [event |-> "UPDATE",
                       data |-> Put(EmptyDict, "volume", volume(d1))] >>, d1)

(* set_volume_level(volume): the argument is a float, or None, which is    *)
(* the empty tuple here.  The BAD_REQUEST it returns for None is a return  *)
(* like any other to the wrapper.                                          *)
set_volume_level(d, tr, vol) ==
    IF vol = << >> THEN VolumeBody("ok", << >>, << >>, d)
    ELSE StoreVolume(d, tr,
             RatAdd(Rat(vol[1] * (d._volume_max - d._volume_min), vol[2] * 100),
                    RatOfInt(d._volume_min)))

volume_up(d, tr) ==
    StoreVolume(d, tr, RatMin(RatAdd(d._volume, StepOf(d)), RatOfInt(d._volume_max)))

volume_down(d, tr) ==
    StoreVolume(d, tr,
        RatMax(RatAdd(d._volume, Rat(-StepOf(d)[1], StepOf(d)[2])),
               RatOfInt(d._volume_min)))

(* source_next: nothing for a source that is not known; else the name     *)
(* after the current one in source_list (the first after the last, and     *)
(* the second when the current one is not in the list), stored in          *)
(* _function as its index in the table before set_func and get_func.       *)
(* sources[index] of an empty list raises IndexError, which the except     *)
(* ValueError of the body does not catch.                                  *)
source_next(d, tr) ==
    IF d._function = -1 \/ d._function >= Len(functions)
    THEN VolumeBody("ok", << >>, << >>, d)
    ELSE LET sources == source_list(d)
             found == PlaceOf(sources, source(d))
             index == IF found = 0 THEN 1 ELSE found
             next == IF index >= Len(sources) THEN 0 ELSE index
         IN  IF sources = << >> THEN VolumeBody("Exception", << >>, << >>, d)
             ELSE LET f == PlaceOf(functions, sources[next + 1]) - 1
                  IN  VolumeBody("ok", set_func(tr, f) \o get_func(tr), << >>,
                                 [d EXCEPT !._function = f])

(* wrapper(obj, ...): the body, then on its return start_polling() and OK. *)
(* What the body does to the fields of the device is stated by the action  *)
(* of each command.                                                        *)
Command(name, arg, body) ==
    /\ sent' = body.sent
    /\ events' = body.events
    /\ update_task' = IF body.outcome = "ok" THEN start_polling(update_task)
                      ELSE update_task
    /\ live_tasks' = IF body.outcome = "ok"
                     THEN live_after_start(update_task, live_tasks)
                     ELSE live_tasks
    /\ UNCHANGED <<update_lock, tasks, received>>
    /\ offRun' = IF body.outcome = "ok" THEN OffRunAfterStart(update_task)
                 ELSE offRun
    /\ op' = OpRec(name, arg, cmd_wrapper(body.outcome))
    /\ prev' = dev
    /\ UNCHANGED <<transport, connected, always_on, retry, steps>>

SourceArgs == {"HDMI", "Wi-Fi", "Tape", None}
SoundModeArgs == {"Cinema", "Loud", None}

TurnOn ==
    /\ Command("turn_on", None, turn_on(dev, transport))
    /\ UNCHANGED dev

TurnOff ==
    /\ Command("turn_off", None, turn_off(dev, transport))
    /\ UNCHANGED dev

Toggle ==
    /\ Command("toggle", None, toggle(dev, transport))
    /\ UNCHANGED dev

SendCommand ==
    /\ \E command \in PowerCommands :
          Command("send_command", command, send_command(dev, transport, command))
    /\ UNCHANGED dev

Mute ==
    /\ \E m \in BOOLEAN :
          Command("mute", IF m THEN "True" ELSE "False", mute(dev, transport, m))
    /\ UNCHANGED dev

MuteToggle ==
    /\ Command("mute_toggle", None, mute_toggle(dev, transport))
    /\ UNCHANGED dev

SelectSource ==
    /\ \E src \in SourceArgs :
          Command("select_source", src, select_source(dev, transport, src))
    /\ UNCHANGED dev

SelectSoundMode ==
    /\ \E mode \in SoundModeArgs :
          Command("select_sound_mode", mode, select_sound_mode(dev, transport, mode))
    /\ UNCHANGED dev

(* The volume levels a caller asks for, in percent, and no level at all.   *)
VolumeLevels == {RatOfInt(0), RatOfInt(25), RatOfInt(100), << >>}

SetVolumeLevel ==
    /\ \E vol \in VolumeLevels :
          LET body == set_volume_level(dev, transport, vol)
          IN  /\ Command("set_volume_level", vol, body)
              /\ dev' = body.dev

VolumeUp ==
    /\ Command("volume_up", None, volume_up(dev, transport))
    /\ dev' = volume_up(dev, transport).dev

VolumeDown ==
    /\ Command("volume_down", None, volume_down(dev, transport))
    /\ dev' = volume_down(dev, transport).dev

SourceNext ==
    /\ Command("source_next", None, source_next(dev, transport))
    /\ dev' = source_next(dev, transport).dev

CommandNames ==
    {"turn_on", "turn_off", "toggle", "send_command", "mute", "mute_toggle",
     "select_source", "select_sound_mode", "set_volume_level", "volume_up",
     "volume_down"}

-----------------------------------------------------------------------------
(* The client with its transport: connection, polling, commands and the    *)
(* responses of the device.                                                *)

Next ==
    \/ Connect
    \/ Disconnect
    \/ TemescalConnect
    \/ StartPolling
    \/ StopPolling
    \/ PollIteration
    \/ DataReceived
    \/ DataReceivedEmpty
    \/ TurnOn
    \/ TurnOff
    \/ Toggle
    \/ SendCommand
    \/ Mute
    \/ MuteToggle
    \/ SelectSource
    \/ SelectSoundMode
    \/ SetVolumeLevel
    \/ VolumeUp
    \/ VolumeDown

Spec == Init /\ [][Next]_vars

-----------------------------------------------------------------------------
(* handle_event on its own: up to MaxApplies responses of any kind applied *)
(* to a device as constructed.                                             *)

HandleEvent(responses) ==
    /\ steps' = steps + 1
    /\ \E response \in responses : Apply(response)

ApplyEq ==
    /\ steps < MaxApplies
    /\ HandleEvent(EqResponses)
ApplySpk ==
    /\ steps < MaxApplies
    /\ HandleEvent(SpkResponses)
ApplyFunc ==
    /\ steps < MaxApplies
    /\ HandleEvent(FuncResponses)
ApplySetting ==
    /\ steps < MaxApplies
    /\ HandleEvent(SettingResponses)
ApplyPlay ==
    /\ steps < MaxApplies
    /\ HandleEvent(PlayResponses)
ApplyProduct ==
    /\ steps < MaxApplies
    /\ HandleEvent(ProductResponses)
ApplyOther ==
    /\ steps < MaxApplies
    /\ HandleEvent(OtherResponses)

NextApply ==
    \/ ApplyEq
    \/ ApplySpk
    \/ ApplyFunc
    \/ ApplySetting
    \/ ApplyPlay
    \/ ApplyProduct
    \/ ApplyOther

SpecApply == Init /\ [][NextApply]_vars

-----------------------------------------------------------------------------
(* The volume commands on a device whose volume block is known: the        *)
(* connection is opened and closed, the device reports its volume and its  *)
(* range, and the caller sets the volume and steps it up and down.         *)
(* The steps and the ranges are those for which the floats of the code are *)
(* exact (every value is a multiple of 1/4), so that the rationals here    *)
(* are the floats there.                                                   *)

VolumeSteps == {RatOfInt(1), RatOfInt(10), Rat(1, 2)}

VolumeResponses ==
    { [msg |-> "SPK_LIST_VIEW_INFO",
       data |-> [i_vol |-> v[1], i_vol_min |-> v[2], i_vol_max |-> v[3]]] :
         v \in { <<0, 0, 100>>, <<95, 0, 100>>, <<100, 0, 100>>,
                 <<10, 10, 60>>, <<60, 10, 60>> } }

InitVolume ==
    /\ \E s \in VolumeSteps : dev = [InitDev EXCEPT !._volume_step = s]
    /\ prev = dev
    /\ transport = None
    /\ connected = FALSE
    /\ always_on = FALSE
    /\ update_task = None
    /\ live_tasks = 0
    /\ update_lock = FALSE
    /\ tasks = << >>
    /\ received = << >>
    /\ retry = 0
    /\ op = [name |-> "init", arg |-> None, result |-> None,
             transport |-> None, connected |-> FALSE,
             task |-> None, retry |-> 0]
    /\ events = << >>
    /\ sent = << >>
    /\ offRun = 0
    /\ steps = 0

VolumeReceived ==
    /\ transport # None
    /\ \E response \in VolumeResponses : Apply(response)
    /\ UNCHANGED steps

NextVolume ==
    \/ TemescalConnect
    \/ Disconnect
    \/ VolumeReceived
    \/ SetVolumeLevel
    \/ VolumeUp
    \/ VolumeDown

SpecVolume == InitVolume /\ [][NextVolume]_vars

-----------------------------------------------------------------------------
(* The commands that write a field themselves, with the responses of the   *)
(* device that give them a range and a source to work on.                  *)

(* The sources the device reports, for the command that stores one.       *)
SourceResponses ==
    { [msg |-> "FUNC_VIEW_INFO", data |-> [i_curr_func |-> 6, ai_func_list |-> << 6, 0 >>]],
      [msg |-> "FUNC_VIEW_INFO", data |-> [i_curr_func |-> 4]] }

SourceReceived ==
    /\ transport # None
    /\ \E response \in SourceResponses : Apply(response)
    /\ UNCHANGED steps

InitStore ==
    /\ InitVolume
    /\ dev._volume_step = RatOfInt(10)

NextStore ==
    \/ TemescalConnect
    \/ Disconnect
    \/ VolumeReceived
    \/ SourceReceived
    \/ SetVolumeLevel
    \/ VolumeUp
    \/ VolumeDown
    \/ SourceNext

SpecStore == InitStore /\ [][NextStore]_vars

-----------------------------------------------------------------------------
(* lglib.py: the codec.  A str is the sequence of its code points, bytes   *)
(* are a sequence of 0..255.                                               *)

iv == << 39, 37, 94, 85, 114, 55, 103, 121, 36, 126, 116, 43, 102, 41, 37, 64 >>
key == << 84, 94, 38, 42, 74, 37, 94, 55, 116, 114, 126, 52, 94, 37, 94, 38,
          73, 40, 111, 37, 94, 33, 106, 73, 74, 95, 95, 43, 97, 48, 32, 107 >>

(* AES in CBC mode, as far as the codec depends on it: a keyed bijection   *)
(* on whole 16-byte blocks, each block chained to the ciphertext block     *)
(* before it (the iv for the first).  Byte addition modulo 256 stands for  *)
(* the xor of the chaining and for the block permutation of AES.           *)
RECURSIVE cbc_encrypt(_, _)
cbc_encrypt(chain, data) ==
    IF data = << >> THEN << >>
    ELSE LET block == [i \in 1..16 |->
                          (data[i] + chain[i] + key[i] + key[i + 16]) % 256]
         IN  block \o cbc_encrypt(block, SubSeq(data, 17, Len(data)))

RECURSIVE cbc_decrypt(_, _)
cbc_decrypt(chain, data) ==
    IF data = << >> THEN << >>
    ELSE [i \in 1..16 |-> (data[i] - chain[i] - key[i] - key[i + 16]) % 256]
         \o cbc_decrypt(SubSeq(data, 1, 16), SubSeq(data, 17, Len(data)))

(* str.encode("utf-8") for code points below 2048: one byte below 128,     *)
(* two bytes from there.  The text is encoded half by half.                *)
RECURSIVE utf8_encode(_)
utf8_encode(text) ==
    IF text = << >> THEN << >>
    ELSE IF Len(text) = 1
         THEN IF text[1] < 128 THEN << text[1] >>
              ELSE << 192 + (text[1] \div 64), 128 + (text[1] % 64) >>
    ELSE LET h == Len(text) \div 2
         IN  utf8_encode(SubSeq(text, 1, h)) \o utf8_encode(SubSeq(text, h + 1, Len(text)))

(* str(bytes, "utf-8") for the same code points, half by half, a half      *)
(* never starting with the second byte of a character; -1 marks a byte     *)
(* that does not decode (UnicodeDecodeError).                              *)
RECURSIVE utf8_decode(_)
utf8_decode(bytes) ==
    IF bytes = << >> THEN << >>
    ELSE IF Len(bytes) = 1
         THEN IF bytes[1] < 128 THEN << bytes[1] >> ELSE << -1 >>
    ELSE IF Len(bytes) = 2
         THEN IF bytes[1] < 128
              THEN << bytes[1] >> \o (IF bytes[2] < 128 THEN << bytes[2] >> ELSE << -1 >>)
              ELSE IF bytes[1] \in 194..223 /\ bytes[2] \in 128..191
                   THEN << (bytes[1] - 192) * 64 + (bytes[2] - 128) >>
                   ELSE << -1 >>
    ELSE LET h == Len(bytes) \div 2
             cut == IF bytes[h + 1] \in 128..191 /\ bytes[h] \in 194..223
                    THEN h + 1 ELSE h
         IN  utf8_decode(SubSeq(bytes, 1, cut))
             \o utf8_decode(SubSeq(bytes, cut + 1, Len(bytes)))

(* encrypt_packet(data): the packet, or the exception that leaves it.      *)
(* cipher.encrypt raises ValueError for data that is not whole blocks,     *)
(* bytearray([...]) raises ValueError for a member above 255.              *)
encrypt_packet(data) ==
    LET padlen == 16 - (Len(data) % 16)
        padded == utf8_encode(data \o [i \in 1..padlen |-> padlen])
        encrypted == cbc_encrypt(iv, padded)
        length == Len(encrypted)
    IN  IF Len(padded) % 16 # 0 \/ length > 255
        THEN [raises |-> "ValueError", value |-> << >>]
        ELSE [raises |-> None, value |-> << 16, 0, 0, 0, length >> \o encrypted]

(* decrypt_packet(data) for a ciphertext of whole blocks, at least one:    *)
(* decrypt[: -ord(padding)] is empty for a last byte of 0 and for one      *)
(* beyond the length.                                                      *)
decrypt_packet(data) ==
    LET decrypt == cbc_decrypt(iv, data)
        padding == decrypt[Len(decrypt)]
        stripped == IF padding = 0 THEN << >>
                    ELSE SubSeq(decrypt, 1, Len(decrypt) - padding)
        text == utf8_decode(stripped)
    IN  IF InList(-1, text) THEN [raises |-> "UnicodeDecodeError", value |-> << >>]
        ELSE [raises |-> None, value |-> text]

(* json.dumps of the command of set_name(name), for a name of characters   *)
(* that json writes as they are: the text before the name and after it.    *)
JsonHead ==
    << 123, 34, 99, 109, 100, 34, 58, 32, 34, 115, 101, 116, 34, 44, 32, 34,
       100, 97, 116, 97, 34, 58, 32, 123, 34, 115, 95, 117, 115, 101, 114, 95,
       110, 97, 109, 101, 34, 58, 32, 34 >>
JsonTail ==
    << 34, 125, 44, 32, 34, 109, 115, 103, 34, 58, 32, 34, 83, 69, 84, 84, 73,
       78, 71, 95, 86, 73, 69, 87, 95, 73, 78, 70, 79, 34, 125 >>

json_dumps(command) == JsonHead \o command.data.s_user_name \o JsonTail

(* json.loads, on the texts json_dumps writes and on the text {} of an     *)
(* object with no member; any other text is refused.                       *)
json_loads(text) ==
    LET n == Len(text) - Len(JsonTail)
    IN  IF text = << 123, 125 >> THEN [raises |-> None, value |-> EmptyDict]
        ELSE IF /\ n >= Len(JsonHead)
           /\ SubSeq(text, 1, Len(JsonHead)) = JsonHead
           /\ SubSeq(text, n + 1, Len(text)) = JsonTail
        THEN [raises |-> None,
              value |-> Set("SETTING_VIEW_INFO",
                            [s_user_name |-> SubSeq(text, Len(JsonHead) + 1, n)])]
        ELSE [raises |-> "JSONDecodeError", value |-> << >>]

MaxNames == 27       \* the device names sent have 0, 7, ... 7 * MaxNames letters

(* send_packet up to the write: json.dumps and encrypt_packet of the       *)
(* command of set_name, for a name of 7 * k letters a (every length of     *)
(* the text modulo 16 occurs).                                             *)
EncryptPacket ==
    /\ \E k \in 0..MaxNames :
          LET command == Set("SETTING_VIEW_INFO",
                             [s_user_name |-> [i \in 1..(7 * k) |-> 97]])
          IN  op' = OpRec("encrypt_packet", command, encrypt_packet(json_dumps(command)))
    /\ prev' = dev
    /\ events' = << >>
    /\ sent' = << >>
    /\ UNCHANGED <<dev, transport, connected, always_on, update_task, live_tasks, update_lock, tasks, received, retry,
                   offRun, steps>>

(* encrypt_packet called with a text of its own: one, two and sixteen      *)
(* letters of two bytes each, alone and behind a letter of one byte.       *)
EncryptText ==
    /\ \E n \in {1, 2, 16}, lead \in {<< >>, << 97 >>} :
          LET text == lead \o [i \in 1..n |-> 233]
          IN  op' = OpRec("encrypt_text", text, encrypt_packet(text))
    /\ prev' = dev
    /\ events' = << >>
    /\ sent' = << >>
    /\ UNCHANGED <<dev, transport, connected, always_on, update_task, live_tasks, update_lock, tasks, received, retry,
                   offRun, steps>>

(* The packet just made, read as data_received reads one: the five bytes   *)
(* of the prelude are taken off, the rest is decrypted and parsed.         *)
DecryptPacket ==
    /\ op.name = "encrypt_packet"
    /\ op.result.raises = None
    /\ LET data == SubSeq(op.result.value, 6, Len(op.result.value))
           response == decrypt_packet(data)
       IN  op' = OpRec("decrypt_packet", data,
                       IF response.raises = None THEN json_loads(response.value)
                       ELSE response)
    /\ prev' = dev
    /\ events' = << >>
    /\ sent' = << >>
    /\ UNCHANGED <<dev, transport, connected, always_on, update_task, live_tasks, update_lock, tasks, received, retry,
                   offRun, steps>>

NextCodec ==
    \/ EncryptPacket
    \/ EncryptText
    \/ DecryptPacket

SpecCodec == Init /\ [][NextCodec]_vars

-----------------------------------------------------------------------------
(* lglib.py: Temescal alone, as the protocol of its connection: what it    *)
(* writes and what it makes of the bytes it is given.                      *)

(* send_packet(data), the write raising or not.  With no transport it      *)
(* returns at once.  After a write that raised,                            *)
(* self._loop.run_until_complete(self.connect) is given a bound method     *)
(* and is called on the running loop: it raises before anything connects,  *)
(* the second write is not reached, and the inner except logs and passes.  *)
(* writes counts the calls of write, reconnects the connects performed.    *)
send_packet_write(tr, packet, write_raises) ==
    IF tr = None
    THEN [writes |-> 0, reconnects |-> 0, written |-> << >>, raises |-> None]
    ELSE IF ~write_raises
    THEN [writes |-> 1, reconnects |-> 0, written |-> << packet >>, raises |-> None]
    ELSE [writes |-> 1, reconnects |-> 0, written |-> << >>, raises |-> None]

(* What data_received leaves: the exception that left it, whether         *)
(* decrypt_packet was called, the last byte of what it decrypted (-1 when  *)
(* nothing was) and the response given to a task of handle_response.       *)
Received(raises, decrypted, padding, response) ==
    [raises |-> raises, decrypted |-> decrypted, padding |-> padding,
     response |-> response]

(* decrypt_packet(data) as data_received calls it, and what it does with   *)
(* the outcome.  ord(padding) raises TypeError for a payload of no byte.   *)
decode_payload(payload) ==
    IF payload = << >> THEN Received("TypeError", TRUE, -1, << >>)
    ELSE LET response == decrypt_packet(payload)
             padding == cbc_decrypt(iv, payload)[Len(payload)]
         IN  IF response.raises # None
             THEN Received(response.raises, TRUE, padding, << >>)
             ELSE Received(None, TRUE, padding, << response.value >>)

(* The payload decrypted whatever its length: cipher.decrypt raises        *)
(* ValueError for a payload that is not whole blocks.                      *)
data_received_payload_unchecked(payload) ==
    IF Len(payload) % 16 # 0 THEN Received("ValueError", TRUE, -1, << >>)
    ELSE decode_payload(payload)

(* data_received from 'if len(data) % 16 != 0' on.                         *)
data_received_payload(payload) ==
    IF Len(payload) % 16 # 0 THEN Received(None, FALSE, -1, << >>)
    ELSE decode_payload(payload)

(* data_received after its marker test.  struct.unpack raises              *)
(* struct.error for fewer than four bytes; data[:length] is what there is  *)
(* when the chunk is shorter than the length it announces.                 *)
data_received_frame(data) ==
    IF Len(data) < 5 THEN Received("struct.error", FALSE, -1, << >>)
    ELSE LET length == ((data[2] * 256 + data[3]) * 256 + data[4]) * 256 + data[5]
         IN  data_received_payload(SubSeq(data, 6, 5 + Min(length, Len(data) - 5)))

(* The first byte taken for a marker whatever it is.                       *)
data_received_any_marker(data) == data_received_frame(data)

(* data_received(data) for data of one byte or more.                       *)
data_received(data) ==
    IF data[1] # 16 THEN Received(None, FALSE, -1, << >>)
    ELSE data_received_frame(data)

(* The task of handle_response(response): json.loads, then the callback,   *)
(* LGDevice.handle_event, which reads response["msg"].  An exception ends  *)
(* the task and nothing else.                                              *)
handle_response(d, response) ==
    LET parsed == json_loads(response)
    IN  IF parsed.raises # None
        THEN [raises |-> parsed.raises, applied |-> << >>, dev |-> d,
              update_data |-> EmptyDict]
        ELSE IF ~Has(parsed.value, "msg")
        THEN [raises |-> "KeyError", applied |-> << >>, dev |-> d,
              update_data |-> EmptyDict]
        ELSE LET h == handle_event(d, parsed.value)
             IN  [raises |-> None, applied |-> << parsed.value >>, dev |-> h.dev,
                  update_data |-> h.update_data]

(* The names the device reports, and the response that carries one: the   *)
(* text json_dumps writes, of which handle_event reads msg and data.       *)
DeviceNames == { << 97 >>, << 98, 98 >> }
DeviceResponse(name) == Set("SETTING_VIEW_INFO", [s_user_name |-> name])
DeviceText(name) == utf8_encode(json_dumps(DeviceResponse(name)))

(* What the device puts on the wire: bytes padded to whole blocks with     *)
(* the pad count, encrypted, behind the marker and the length that         *)
(* data_received reads.                                                    *)
Pkcs7(bytes) ==
    LET padlen == 16 - (Len(bytes) % 16)
    IN  bytes \o [i \in 1..padlen |-> padlen]
DeviceFrame(plain) ==
    << 16, 0, 0, 0, Len(plain) >>
    \o (IF Len(plain) % 16 = 0 THEN cbc_encrypt(iv, plain) ELSE plain)
FrameOf(name) == DeviceFrame(Pkcs7(DeviceText(name)))

(* Where the stream cuts a frame in two: inside the length, after one      *)
(* block of the payload, inside a block.                                   *)
Cuts == {3, 21, 30}

(* The data of one call of data_received, with the frames that end in it.  *)
Chunk(kind, data, frames) == [kind |-> kind, data |-> data, frames |-> frames]

WellFormedChunks ==
    { Chunk("frame", FrameOf(n), << DeviceResponse(n) >>) : n \in DeviceNames }
    \cup { Chunk("coalesced", FrameOf(n) \o FrameOf(m),
                 << DeviceResponse(n), DeviceResponse(m) >>) :
               n \in DeviceNames, m \in DeviceNames }
    \cup { Chunk("head", SubSeq(FrameOf(n), 1, c), << >>) :
               n \in DeviceNames, c \in Cuts }
    \cup { Chunk("tail", SubSeq(FrameOf(n), c + 1, Len(FrameOf(n))),
                 << DeviceResponse(n) >>) : n \in DeviceNames, c \in Cuts }

(* Data that is no frame of the device: a frame with another byte for its  *)
(* marker, bytes of another protocol, a                                    *)
(* payload that is not whole blocks, a header cut short, pads that are no  *)
(* pad (24 bytes of 24 behind a response, a last byte of 0, a block of     *)
(* spaces), a byte that is no UTF-8, a text that is no JSON, an object     *)
(* with no msg.                                                            *)
MalformedChunks ==
    { Chunk("no marker", << 17 >> \o Tail(FrameOf(n)), << >>) : n \in DeviceNames }
    \cup { Chunk("no marker", << 72, 84, 84, 80 >>, << >>) }
    \cup { Chunk("not whole blocks", DeviceFrame(SubSeq(DeviceText(n), 1, 24)), << >>) :
               n \in DeviceNames }
    \cup { Chunk("truncated header", << 16, 0, 0 >>, << >>) }
    \cup { Chunk("bad padding",
                 DeviceFrame(DeviceText(<< 97 >>) \o [i \in 1..24 |-> 24]), << >>),
           Chunk("bad padding",
                 DeviceFrame(<< 123, 125 >> \o [i \in 1..14 |-> 0]), << >>),
           Chunk("bad padding", DeviceFrame([i \in 1..16 |-> 32]), << >>) }
    \cup { Chunk("undecodable text", DeviceFrame(Pkcs7(<< 255 >>)), << >>) }
    \cup { Chunk("malformed JSON", DeviceFrame(Pkcs7(<< 123 >>)), << >>) }
    \cup { Chunk("no msg", DeviceFrame(Pkcs7(<< 123, 125 >>)), << >>) }

(* data_received(data) on an open connection, and the task it creates run  *)
(* to its end.  An exception that leaves data_received is a fatal error    *)
(* to the asyncio transport that called it: the transport closes the       *)
(* connection, and Temescal, which has no connection_lost, keeps the       *)
(* handle and the flag.                                                    *)
DataReceivedChunk ==
    /\ transport = "open"
    /\ \E chunk \in WellFormedChunks \cup MalformedChunks :
          LET r == data_received(chunk.data)
              t == IF r.response = << >>
                   THEN [raises |-> None, applied |-> << >>, dev |-> dev,
                         update_data |-> EmptyDict]
                   ELSE handle_response(dev, r.response[1])
          IN  /\ dev' = t.dev
              /\ events' = UpdateEvents(t.update_data)
              /\ transport' = IF r.raises # None THEN "closed" ELSE transport
              /\ op' = OpRec("data_received_chunk", chunk,
                             [raises |-> r.raises, decrypted |-> r.decrypted,
                              padding |-> r.padding, response |-> r.response,
                              task_raises |-> t.raises, applied |-> t.applied])
    /\ prev' = dev
    /\ sent' = << >>
    /\ UNCHANGED <<connected, always_on, update_task, live_tasks, update_lock, tasks, received, retry, offRun, steps>>

(* Temescal.send_packet called with a command of its own methods.          *)
SendPacket ==
    /\ \E packet \in {Get("EQ_VIEW_INFO"),
                       Set("SPK_LIST_VIEW_INFO", [b_powerkey |-> TRUE])},
          write_raises \in BOOLEAN :
          LET r == send_packet_write(transport, packet, write_raises)
          IN  /\ op' = OpRec("send_packet",
                             [packet |-> packet, write_raises |-> write_raises], r)
              /\ sent' = r.written
    /\ prev' = dev
    /\ events' = << >>
    /\ UNCHANGED <<dev, transport, connected, always_on, update_task, live_tasks, update_lock, tasks, received, retry,
                   offRun, steps>>

(* The device is constructed with its name as the code points of "LG".    *)
InitTransport ==
    /\ dev = [InitDev EXCEPT !._device_name = << 76, 71 >>]
    /\ transport = None
    /\ connected = FALSE
    /\ always_on = FALSE
    /\ update_task = None
    /\ live_tasks = 0
    /\ update_lock = FALSE
    /\ tasks = << >>
    /\ received = << >>
    /\ retry = 0
    /\ op = [name |-> "init", arg |-> None, result |-> None,
             transport |-> None, connected |-> FALSE,
             task |-> None, retry |-> 0]
    /\ prev = dev
    /\ events = << >>
    /\ sent = << >>
    /\ offRun = 0
    /\ steps = 0

NextTransport ==
    \/ TemescalConnect
    \/ Disconnect
    \/ SendPacket
    \/ DataReceivedChunk

SpecTransport == InitTransport /\ [][NextTransport]_vars

-----------------------------------------------------------------------------
(* lglib.py: the tasks of handle_response.  data_received creates one for  *)
(* each response it decodes (asyncio.create_task) and returns; the event   *)
(* loop starts the tasks in the order they were created, and               *)
(* handle_response has no await, so a task that starts runs handle_event   *)
(* to its end before anything else runs.                                   *)

MaxFrames == 3       \* frames received in a run of SpecOrder

(* Responses of two msgs that carry the same keys with different values.   *)
OrderResponses ==
    { [msg |-> "SPK_LIST_VIEW_INFO", data |-> [i_vol |-> 10]],
      [msg |-> "SPK_LIST_VIEW_INFO", data |-> [i_vol |-> 20, b_mute |-> TRUE]],
      [msg |-> "SPK_LIST_VIEW_INFO", data |-> [b_mute |-> FALSE]],
      [msg |-> "EQ_VIEW_INFO", data |-> [i_bass |-> 3]],
      [msg |-> "EQ_VIEW_INFO", data |-> [i_bass |-> 5]] }

(* The task the event loop starts next: the oldest of those created.       *)
next_task_newest(queue) == queue[Len(queue)]

next_task(queue) == Head(queue)

without_task(queue, t) == SelectSeq(queue, LAMBDA x : x # t)

(* data_received with one whole frame: the response is decoded and a task  *)
(* of handle_response is created for it; nothing is applied yet.           *)
FrameReceived ==
    /\ transport # None
    /\ Len(received) < MaxFrames
    /\ \E response \in OrderResponses :
          /\ received' = Append(received, response)
          /\ tasks' = Append(tasks, Len(received) + 1)
          /\ op' = OpRec("frame_received", response, None)
    /\ prev' = dev
    /\ events' = << >>
    /\ sent' = << >>
    /\ UNCHANGED <<dev, transport, connected, always_on, update_task, live_tasks,
                   update_lock, retry, offRun, steps>>

(* One task of handle_response, from its start to its end.                 *)
RunTask ==
    /\ tasks # << >>
    /\ LET t == next_task(tasks)
           h == handle_event(dev, received[t])
       IN  /\ dev' = h.dev
           /\ events' = UpdateEvents(h.update_data)
           /\ tasks' = without_task(tasks, t)
           /\ op' = OpRec("handle_response",
                          [task |-> t, response |-> received[t]], None)
    /\ prev' = dev
    /\ sent' = << >>
    /\ UNCHANGED <<transport, connected, always_on, update_task, live_tasks,
                   update_lock, received, retry, offRun, steps>>

InitOrder ==
    /\ Init
    /\ always_on = FALSE

NextOrder ==
    \/ TemescalConnect
    \/ DataReceivedEmpty
    \/ FrameReceived
    \/ RunTask

SpecOrder == InitOrder /\ [][NextOrder]_vars

-----------------------------------------------------------------------------
(* What the claims observe.                                                *)

(* The externally visible attributes, by their ucapi attribute name.       *)
Attributes(d) ==
    [ state |-> state(d), volume |-> volume(d), muted |-> muted(d),
      source |-> source(d), source_list |-> source_list(d),
      sound_mode |-> sound_mode(d), sound_mode_list |-> sound_mode_list(d),
      media_title |-> media_title(d), media_artist |-> media_artist(d),
      media_position |-> media_position(d), media_duration |-> media_duration(d),
      media_image_url |-> media_image_url(d) ]

AttributeNames == DOMAIN Attributes(InitDev)

(* The mapping of the UPDATE event the last operation emitted, {} if none. *)
Emitted == IF events # << >> /\ events[1].event = "UPDATE"
           THEN events[1].data ELSE EmptyDict

Applied == op.name = "handle_event"

IsCommand == op.name \in CommandNames

Range(seq) == { seq[i] : i \in 1..Len(seq) }

KnownMsgs ==
    {"EQ_VIEW_INFO", "SPK_LIST_VIEW_INFO", "FUNC_VIEW_INFO", "SETTING_VIEW_INFO",
     "PLAY_INFO", "PRODUCT_INFO"}

-----------------------------------------------------------------------------
(* C1: with always_on false, once the power state has been false in 11     *)
(* consecutive iterations of the poll loop, the loop has terminated.       *)
C1_StopsAfterElevenPowerOffPolls ==
    (~always_on /\ offRun >= CONNECTION_RETRIES + 1) => update_task = None

-----------------------------------------------------------------------------
(* C2: with always_on set, an iteration of the poll loop never ends the    *)
(* loop, never touches the transport, and the failure counter stays 0,     *)
(* however many iterations saw the device off.                             *)
C2_AlwaysOnNeverGivesUp ==
    always_on =>
        /\ retry = 0
        /\ op.name = "poll" =>
              /\ op.result = "polled"
              /\ update_task = "sleeping"
              /\ transport = op.transport
              /\ connected = op.connected

(* Eleven off iterations in a row on an open connection, still polling.    *)
C2_Witness ==
    /\ always_on
    /\ op.name = "poll"
    /\ op.arg = "again"
    /\ state(dev) = "OFF"
    /\ offRun = CONNECTION_RETRIES + 1
    /\ transport = "open"
    /\ Len(sent) = 5

-----------------------------------------------------------------------------
(* C3, as claimed: after connect() or a command that returned OK a poll    *)
(* task is registered whose failure counter is zero (or will be, the task  *)
(* being new).                                                             *)
C3_TaskRunsWithCounterZero ==
    (op.name = "connect" \/ (IsCommand /\ op.result = "OK")) =>
        /\ update_task # None
        /\ update_task = "created" \/ retry = 0

(* C3, amended: after connect() or a command that returned OK a poll task  *)
(* is registered; it is a new one if none was registered, and otherwise    *)
(* the one that was, with its counter as it was.  The first iteration of   *)
(* a new task starts the counter from zero.                                *)
C3_TaskRunsAfterCommand ==
    /\ (op.name = "connect" \/ (IsCommand /\ op.result = "OK")) =>
          /\ update_task # None
          /\ op.task = None => update_task = "created"
          /\ op.task # None => (update_task = op.task /\ retry = op.retry)
    /\ (op.name = "poll" /\ op.arg = "first") =>
          retry = IF ~always_on /\ state(dev) = "OFF" THEN 1 ELSE 0

(* A command that returned OK after the loop had given up.                 *)
C3_Witness ==
    /\ op.name = "turn_on"
    /\ op.result = "OK"
    /\ op.task = None
    /\ op.retry = CONNECTION_RETRIES + 1
    /\ update_task = "created"

-----------------------------------------------------------------------------
(* C4: a command invoked with no connection returns BAD_REQUEST, and no    *)
(* command returns OK without having written its packet.                   *)
C4_NoConnectionGivesBadRequest ==
    IsCommand =>
        /\ op.transport = None => op.result = "BAD_REQUEST"
        /\ op.result = "OK" => sent # << >>

-----------------------------------------------------------------------------
(* C5: after handle_event, every visible attribute whose value differs     *)
(* from its value before is in the emitted mapping, with its new value.    *)
C5_EveryChangeIsEmitted ==
    Applied =>
        \A a \in AttributeNames :
            Attributes(prev)[a] # Attributes(dev)[a] =>
                /\ a \in DOMAIN Emitted
                /\ Emitted[a] = Attributes(dev)[a]

-----------------------------------------------------------------------------
(* C6: handle_event emits an UPDATE only for attributes whose value        *)
(* changed: every attribute of the emitted mapping differs from its value  *)
(* before, so no event is emitted when no attribute changed.               *)
C6_OnlyChangesAreEmitted ==
    Applied =>
        /\ \A a \in DOMAIN Emitted : Attributes(prev)[a] # Attributes(dev)[a]
        /\ Attributes(prev) = Attributes(dev) => events = << >>

-----------------------------------------------------------------------------
(* The field a key of a payload is stored in, and the msgs whose routine   *)
(* stores it.                                                              *)
FieldKey ==
    [ _volume |-> "i_vol", _volume_min |-> "i_vol_min", _volume_max |-> "i_vol_max",
      _power_state |-> "b_powerstatus",
      _function |-> "i_curr_func", _functions |-> "ai_func_list",
      _equaliser |-> "i_curr_eq", _equalisers |-> "ai_eq_list",
      _mute |-> "b_mute",
      _rear_volume |-> "i_rear_level", _rear_volume_min |-> "i_rear_min",
      _rear_volume_max |-> "i_rear_max",
      _woofer_volume |-> "i_woofer_level", _woofer_volume_min |-> "i_woofer_min",
      _woofer_volume_max |-> "i_woofer_max",
      _bass |-> "i_bass", _treble |-> "i_treble",
      _media_artist |-> "s_artist", _media_title |-> "s_title",
      _media_position |-> "i_position", _media_duration |-> "i_duration",
      _media_artwork |-> "s_albumart",
      _device_name |-> "s_user_name",
      _night_mode |-> "b_night_mode", _auto_volume_control |-> "b_auto_vol",
      _dynamic_range_reduction |-> "b_drc", _neural_x |-> "b_neuralx",
      _tv_remote |-> "b_tv_remote", _auto_display |-> "b_auto_display",
      _stream_type |-> "i_stream_type", _play_control |-> "i_play_ctrl",
      _serial_number |-> "s_uuid" ]

FieldMsgs ==
    [ f \in DOMAIN InitDev |->
        IF f \in {"_volume", "_volume_min", "_volume_max", "_power_state", "_mute"}
            THEN {"SPK_LIST_VIEW_INFO"}
        ELSE IF f \in {"_function", "_functions"}
            THEN {"SPK_LIST_VIEW_INFO", "FUNC_VIEW_INFO"}
        ELSE IF f \in {"_bass", "_treble", "_equalisers"} THEN {"EQ_VIEW_INFO"}
        ELSE IF f = "_equaliser" THEN {"EQ_VIEW_INFO", "SETTING_VIEW_INFO"}
        ELSE IF f \in {"_media_artist", "_media_title", "_media_position",
                       "_media_duration", "_media_artwork", "_stream_type",
                       "_play_control"} THEN {"PLAY_INFO"}
        ELSE IF f = "_serial_number" THEN {"PRODUCT_INFO"}
        ELSE IF f = "_volume_step" THEN {}
        ELSE {"SETTING_VIEW_INFO"} ]

(* C7, as claimed: handle_event changes a field only if the msg is one     *)
(* whose routine stores it and the key of the field is in the data; an     *)
(* unknown msg or empty data changes nothing.                              *)
C7_AbsentKeysLeaveFields ==
    Applied =>
        /\ \A f \in DOMAIN dev :
              dev[f] # prev[f] =>
                  /\ op.arg.msg \in FieldMsgs[f]
                  /\ FieldKey[f] \in DOMAIN op.arg.data
        /\ (op.arg.msg \notin KnownMsgs \/ op.arg.data = EmptyDict) =>
              (dev = prev /\ events = << >>)

(* C7, amended: the same, except that the known-source list also changes   *)
(* when i_curr_func names an index it does not hold: that index is         *)
(* appended to it.                                                         *)
C7_AbsentKeysLeaveFieldsButSources ==
    Applied =>
        /\ \A f \in (DOMAIN dev) \ {"_functions"} :
              dev[f] # prev[f] =>
                  /\ op.arg.msg \in FieldMsgs[f]
                  /\ FieldKey[f] \in DOMAIN op.arg.data
        /\ dev._functions # prev._functions =>
              /\ op.arg.msg \in FieldMsgs["_functions"]
              /\ \/ /\ op.arg.msg = "FUNC_VIEW_INFO"
                    /\ "ai_func_list" \in DOMAIN op.arg.data
                    /\ dev._functions = op.arg.data["ai_func_list"]
                 \/ /\ "i_curr_func" \in DOMAIN op.arg.data
                    /\ op.arg.data["i_curr_func"] \notin Range(prev._functions)
                    /\ dev._functions
                         = Append(prev._functions, op.arg.data["i_curr_func"])
        /\ (op.arg.msg \notin KnownMsgs \/ op.arg.data = EmptyDict) =>
              (dev = prev /\ events = << >>)

(* A one-key payload applied to a device whose other fields of the same    *)
(* routine had been set: they are kept.                                    *)
C7_Witness ==
    /\ Applied
    /\ op.arg.msg = "PLAY_INFO"
    /\ DOMAIN op.arg.data = {"s_title"}
    /\ dev._media_title # prev._media_title
    /\ dev._stream_type = 4
    /\ dev._media_duration = 180

-----------------------------------------------------------------------------
(* C8: source and sound_mode are None when the active index is not an      *)
(* index of the table, and the two lists hold only names of known indices  *)
(* i with 0 <= i < len(table).                                             *)
C8_OnlyTableIndicesAreUsed ==
    /\ dev._function \notin 0..(Len(functions) - 1) => source(dev) = None
    /\ dev._equaliser \notin 0..(Len(equalisers) - 1) => sound_mode(dev) = None
    /\ \A n \in Range(source_list(dev)) :
          \E i \in Range(dev._functions) :
              i \in 0..(Len(functions) - 1) /\ functions[i + 1] = n
    /\ \A n \in Range(sound_mode_list(dev)) :
          \E i \in Range(dev._equalisers) :
              i \in 0..(Len(equalisers) - 1) /\ equalisers[i + 1] = n

-----------------------------------------------------------------------------
(* C9: state is OFF whenever the power flag is false; with the power flag  *)
(* true it is PAUSED or PLAYING when the stream type is not 0 (PAUSED iff  *)
(* the play control is 1) and ON otherwise.                                *)
C9_OffWheneverPowerIsOff ==
    /\ ~dev._power_state => state(dev) = "OFF"
    /\ dev._power_state =>
          state(dev) = IF dev._stream_type = 0 THEN "ON"
                       ELSE IF dev._play_control = 1 THEN "PAUSED"
                       ELSE "PLAYING"

-----------------------------------------------------------------------------
(* C10, as claimed: for an integer raw volume, volume is                   *)
(* 100 * |raw - min| / (max - min) when max # min, and 0 when max = min.   *)
C10_VolumeOverSignedRange ==
    dev._volume[2] = 1 =>
        LET v == volume(dev)
            raw == dev._volume[1]
        IN  /\ v[2] > 0
            /\ IF dev._volume_max = dev._volume_min THEN v[1] = 0
               ELSE v[1] * (dev._volume_max - dev._volume_min)
                      = 100 * Abs(raw - dev._volume_min) * v[2]

(* C10, amended: for an integer raw volume, volume is                      *)
(* 100 * |raw - min| / |max - min| when max # min, and 0 when max = min;   *)
(* it is never negative, and it is 50 for raw 50, min 0, max 100.          *)
C10_VolumeOverAbsoluteRange ==
    dev._volume[2] = 1 =>
        LET v == volume(dev)
            raw == dev._volume[1]
        IN  /\ v[2] > 0
            /\ v[1] >= 0
            /\ IF dev._volume_max = dev._volume_min THEN v[1] = 0
               ELSE v[1] * Abs(dev._volume_max - dev._volume_min)
                      = 100 * Abs(raw - dev._volume_min) * v[2]
            /\ (raw = 50 /\ dev._volume_min = 0 /\ dev._volume_max = 100)
                  => v = << 50, 1 >>

(* The payload of the example has been applied, and later one whose        *)
(* maximum is below its minimum.                                           *)
C10_Witness ==
    /\ Applied
    /\ op.arg.msg = "SPK_LIST_VIEW_INFO"
    /\ volume(prev) = << 50, 1 >>
    /\ prev._volume_max = 100
    /\ dev._volume_max < dev._volume_min
    /\ volume(dev) = << 50, 1 >>

-----------------------------------------------------------------------------
(* C11: volume_up at the maximum leaves the raw volume as it was, and      *)
(* symmetrically volume_down at the minimum; volume_up and volume_down     *)
(* emit at most one event, and one that carries the volume only when the   *)
(* volume is not what it was.                                              *)
C11_ClampedStepIsSilent ==
    /\ (op.name = "volume_up" /\ prev._volume = RatOfInt(prev._volume_max)) =>
          dev._volume = prev._volume
    /\ (op.name = "volume_down" /\ prev._volume = RatOfInt(prev._volume_min)) =>
          dev._volume = prev._volume
    /\ op.name \in {"volume_up", "volume_down"} =>
          /\ Len(events) <= 1
          /\ Has(Emitted, "volume") => volume(dev) # volume(prev)

-----------------------------------------------------------------------------
(* C12: set_volume_level with a level, volume_up and volume_down store the *)
(* new raw volume and emit one UPDATE carrying the volume in the call      *)
(* itself, with or without a connection: over a proper range the volume    *)
(* read back is the level asked for, a step moves the raw volume by        *)
(* step * range / 100 up to the bound, and no other field changes.         *)
C12_VolumeIsStoredAndEmittedInTheCall ==
    LET VolumeEvent == << [event |-> "UPDATE", data |-> [volume |-> volume(dev)]] >>
        lo == RatOfInt(prev._volume_min)
        hi == RatOfInt(prev._volume_max)
        up == RatAdd(prev._volume, StepOf(prev))
        down == RatAdd(prev._volume, Rat(-StepOf(prev)[1], StepOf(prev)[2]))
    IN  /\ (op.name = "set_volume_level" /\ op.arg # << >>) =>
              /\ prev._volume_min < prev._volume_max => volume(dev) = op.arg
              /\ events = VolumeEvent
        /\ op.name = "volume_up" =>
              /\ dev._volume = IF RatLess(hi, up) THEN hi ELSE up
              /\ events = VolumeEvent
        /\ op.name = "volume_down" =>
              /\ dev._volume = IF RatLess(down, lo) THEN lo ELSE down
              /\ events = VolumeEvent
        /\ op.name \in {"set_volume_level", "volume_up", "volume_down"} =>
              /\ [dev EXCEPT !._volume = prev._volume] = prev
              /\ op.result = "OK"

(* A level set with no connection: nothing is written, the raw volume and  *)
(* the event are there.                                                    *)
C12_Witness ==
    /\ op.name = "set_volume_level"
    /\ op.arg = RatOfInt(25)
    /\ op.transport = None
    /\ sent = << >>
    /\ prev._volume = RatOfInt(60)
    /\ prev._volume_min = 10
    /\ dev._volume = Rat(45, 2)
    /\ events = << [event |-> "UPDATE", data |-> [volume |-> RatOfInt(25)]] >>

-----------------------------------------------------------------------------
(* C13: when handle_event applies a SPK_LIST_VIEW_INFO or FUNC_VIEW_INFO   *)
(* whose i_curr_func is not among the known sources, that index is among   *)
(* the known sources afterwards and the UPDATE emitted has a source_list   *)
(* entry, whether or not the source changed.                               *)
C13_NewSourceIsKeptAndReported ==
    (/\ Applied
     /\ op.arg.msg \in {"SPK_LIST_VIEW_INFO", "FUNC_VIEW_INFO"}
     /\ Has(op.arg.data, "i_curr_func")
     /\ ~InList(op.arg.data["i_curr_func"], prev._functions)) =>
        /\ InList(op.arg.data["i_curr_func"], dev._functions)
        /\ Has(Emitted, "source_list")

-----------------------------------------------------------------------------
(* C14: when two payloads of the same msg are applied one after the other  *)
(* and differ only in i_curr_func, the second naming a valid index that is *)
(* not a known source, the second apply adds the index to the known        *)
(* sources and its UPDATE has a source_list entry and a source entry.      *)
C14_SecondPayloadReportsSourceAndList ==
    [][ (/\ Applied
         /\ op'.name = "handle_event"
         /\ op'.arg.msg = op.arg.msg
         /\ DOMAIN op'.arg.data = DOMAIN op.arg.data
         /\ Has(op.arg.data, "i_curr_func")
         /\ (\A k \in DOMAIN op.arg.data :
                (op'.arg.data[k] # op.arg.data[k]) <=> (k = "i_curr_func"))
         /\ op'.arg.data["i_curr_func"] \in 0 .. Len(functions) - 1
         /\ ~InList(op'.arg.data["i_curr_func"], dev._functions))
        => (/\ InList(op'.arg.data["i_curr_func"], dev'._functions)
            /\ events' # << >>
            /\ Has(events'[1].data, "source_list")
            /\ Has(events'[1].data, "source")) ]_vars

-----------------------------------------------------------------------------
(* C15: Temescal.connect on a closed transport ends with the transport     *)
(* open and the connected flag set when the TCP connect succeeds, and with *)
(* the transport closed and an error reported to its caller when it does   *)
(* not; on an open transport it changes nothing.  LGDevice.connect ends    *)
(* with the transport open or reports an error.                            *)
C15_ConnectEndsOpenOrReports ==
    /\ op.name = "Temescal.connect" =>
          /\ (op.transport = None /\ op.arg = "ok") =>
                (transport = "open" /\ connected)
          /\ (op.transport = None /\ op.arg = "refused") =>
                (transport = None /\ ~connected /\ op.result # None)
          /\ op.transport # None =>
                (transport = op.transport /\ connected = op.connected)
    /\ op.name = "connect" =>
          \/ transport = "open" /\ connected
          \/ transport = None /\ ~connected /\ op.result # None

-----------------------------------------------------------------------------
(* C16: disconnect() leaves no transport and the connected flag false,     *)
(* whatever the state it is called in, and a disconnect() that follows a   *)
(* disconnect() changes neither.                                           *)
C16_DisconnectLeavesDisconnected ==
    [][ op'.name = "disconnect" =>
          /\ transport' = None
          /\ ~connected'
          /\ op.name = "disconnect" =>
                (transport' = transport /\ connected' = connected) ]_vars

-----------------------------------------------------------------------------
(* C17: encrypt_packet makes a packet of every command, and decrypting     *)
(* and parsing the ciphertext of that packet gives back the command, its   *)
(* msg and its data.                                                       *)
C17_DecryptRecoversTheCommand ==
    [][ /\ op'.name = "encrypt_packet" => op'.result.raises = None
        /\ op'.name = "decrypt_packet" =>
              op'.result = [raises |-> None, value |-> op.arg] ]_vars

-----------------------------------------------------------------------------
(* C18: every command returns to its caller, with OK or BAD_REQUEST, and   *)
(* with BAD_REQUEST when its argument is missing or is not a name of the   *)
(* table: select_source(None), a source or a sound mode that is not        *)
(* known, set_volume_level(None).                                          *)
C18_EveryCommandReturnsAStatus ==
    IsCommand =>
        /\ op.result \in {"OK", "BAD_REQUEST"}
        /\ (op.name = "select_source" /\ ~InList(op.arg, functions)) =>
              op.result = "BAD_REQUEST"
        /\ (op.name = "select_sound_mode" /\ ~InList(op.arg, equalisers)) =>
              op.result = "BAD_REQUEST"
        /\ (op.name = "set_volume_level" /\ op.arg = << >>) =>
              op.result = "BAD_REQUEST"

-----------------------------------------------------------------------------
(* C20: an iteration of the poll loop that finds the state not OFF leaves  *)
(* the failure counter at zero and goes on polling; an iteration adds at   *)
(* most one to the counter, which a new task starts from zero; and the     *)
(* loop ends only in an iteration that finds the state OFF with the        *)
(* counter beyond CONNECTION_RETRIES, the power having been seen off in    *)
(* every iteration that counted.                                           *)
C20_OnObservationClearsTheCounter ==
    [][ op'.name = "poll" =>
          /\ state(dev) # "OFF" => (retry' = 0 /\ op'.result = "polled")
          /\ retry' <= (IF op'.arg = "first" THEN 0 ELSE retry) + 1
          /\ op'.result = "stopped" =>
                /\ state(dev) = "OFF"
                /\ retry' = CONNECTION_RETRIES + 1
                /\ offRun' = CONNECTION_RETRIES + 1 ]_vars

(* The device seen on by a loop that was one iteration from giving up.     *)
C20_Witness ==
    /\ ~always_on
    /\ op.name = "poll"
    /\ op.arg = "again"
    /\ op.retry = CONNECTION_RETRIES
    /\ state(dev) # "OFF"
    /\ retry = 0
    /\ update_task = "sleeping"

-----------------------------------------------------------------------------
(* C21: the iteration in which the poll loop of a device that is not       *)
(* always on gives up leaves no transport (it was closed and forgotten)    *)
(* and no task handle, so that start_polling then creates a task.          *)
C21_GivingUpReleasesTransportAndTask ==
    (op.name = "poll" /\ op.result = "stopped") =>
        /\ ~always_on
        /\ transport = None
        /\ update_task = None
        /\ start_polling(update_task) = "created"

(* The loop giving up while the connection was open.                       *)
C21_Witness ==
    /\ op.name = "poll"
    /\ op.result = "stopped"
    /\ op.transport = "open"
    /\ op.task = "sleeping"
    /\ transport = None
    /\ update_task = None

-----------------------------------------------------------------------------
(* C22: a pass over an open transport requests EQ_VIEW_INFO,               *)
(* SPK_LIST_VIEW_INFO, FUNC_VIEW_INFO, SETTING_VIEW_INFO and PLAY_INFO in  *)
(* that order; the pass made by connect(), the first after a connect,      *)
(* requests PRODUCT_INFO after them, and the passes of the loop do not.    *)
C22_PassOrderAndProductInfoOnConnect ==
    LET pass == << Get("EQ_VIEW_INFO"), Get("SPK_LIST_VIEW_INFO"),
                   Get("FUNC_VIEW_INFO"), Get("SETTING_VIEW_INFO"),
                   Get("PLAY_INFO") >>
    IN  /\ (op.name = "poll" /\ op.result = "polled" /\ op.transport # None) =>
               sent = pass
        /\ (op.name = "connect" /\ op.transport # None) =>
               sent = pass \o << Get("PRODUCT_INFO") >>

-----------------------------------------------------------------------------
(* C23: a send_packet whose write raises reconnects once and writes the    *)
(* packet once more, and a send_packet that has no connection, or whose    *)
(* packet was not written in the end, reports an error to its caller.      *)
C23_FailedWriteReconnectsOnceOrReports ==
    op.name = "send_packet" =>
        /\ (op.transport # None /\ op.arg.write_raises) =>
               (op.result.reconnects = 1 /\ op.result.writes = 2)
        /\ (op.transport = None \/ op.result.written = << >>) =>
               op.result.raises = "SendError"

-----------------------------------------------------------------------------
(* C24: a read of no bytes leaves Temescal with no transport and the       *)
(* connected flag false and emits an event that tells of the closure, and  *)
(* a connect() that follows it and is not refused opens a connection.      *)
C24_PeerCloseLeavesDisconnected ==
    [][ /\ op'.name = "data_received" =>
              (transport' = None /\ ~connected' /\ events' # << >>)
        /\ (op.name = "data_received" /\ op'.name = "Temescal.connect"
                /\ op'.arg = "ok") =>
              (transport' = "open" /\ connected') ]_vars

-----------------------------------------------------------------------------
(* C25: the responses applied by a call of data_received are the frames    *)
(* that end in its data, each once and in their order: the one frame of a  *)
(* chunk that is a frame, both frames of a chunk that holds two, and the   *)
(* frame that the chunk completes when the call before it was given the    *)
(* first part of that frame.                                               *)
C25_EveryFrameAppliedOnce ==
    [][ /\ (op'.name = "data_received_chunk"
                /\ op'.arg.kind \in {"frame", "coalesced"}) =>
              op'.result.applied = op'.arg.frames
        /\ (op.name = "data_received_chunk" /\ op.arg.kind = "head"
                /\ op'.name = "data_received_chunk" /\ op'.arg.kind = "tail"
                /\ (\E n \in DeviceNames : op.arg.data \o op'.arg.data = FrameOf(n))) =>
              (op.result.applied = << >> /\ op'.result.applied = op'.arg.frames) ]_vars

-----------------------------------------------------------------------------
(* C26: data whose first byte is not 16 is not decrypted, leaves the       *)
(* fields of the device, the transport and the connected flag as they      *)
(* were, emits nothing and raises nothing; and a frame given to the next   *)
(* call is applied.                                                        *)
C26_DataWithoutMarkerIsIgnored ==
    [][ /\ (op'.name = "data_received_chunk" /\ op'.arg.data[1] # 16) =>
              /\ dev' = dev
              /\ transport' = transport
              /\ connected' = connected
              /\ events' = << >>
              /\ op'.result.raises = None
              /\ ~op'.result.decrypted
        /\ (op.name = "data_received_chunk" /\ op.arg.data[1] # 16
                /\ op'.name = "data_received_chunk" /\ op'.arg.kind = "frame") =>
              /\ op'.result.applied = op'.arg.frames
              /\ dev'._device_name = op'.arg.frames[1].data.s_user_name ]_vars

(* A frame with 17 for its marker, received after a name was applied.      *)
C26_Witness ==
    /\ op.name = "data_received_chunk"
    /\ op.arg.kind = "no marker"
    /\ op.arg.data[1] = 17
    /\ Len(op.arg.data) = Len(FrameOf(<< 97 >>))
    /\ transport = "open"
    /\ dev = prev
    /\ dev._device_name \in DeviceNames

-----------------------------------------------------------------------------
(* C27: a frame whose payload, as far as the data holds it, is not whole   *)
(* blocks of 16 bytes is not decrypted and not applied, leaves the fields  *)
(* of the device, the transport and the connected flag as they were and    *)
(* raises nothing; and a frame given to the next call is applied.          *)
C27_PayloadNotInBlocksIsDiscarded ==
    [][ LET Partial(c) == /\ c.data[1] = 16
                          /\ Len(c.data) >= 5
                          /\ c.data[5] >= Len(c.data) - 5
                          /\ (Len(c.data) - 5) % 16 # 0
        IN  /\ (op'.name = "data_received_chunk" /\ Partial(op'.arg)) =>
                  /\ ~op'.result.decrypted
                  /\ op'.result.applied = << >>
                  /\ op'.result.raises = None
                  /\ dev' = dev
                  /\ transport' = transport
                  /\ connected' = connected
            /\ (op.name = "data_received_chunk" /\ Partial(op.arg)
                    /\ op'.name = "data_received_chunk" /\ op'.arg.kind = "frame") =>
                  /\ op'.result.applied = op'.arg.frames
                  /\ dev'._device_name = op'.arg.frames[1].data.s_user_name ]_vars

(* A frame of 24 bytes of payload, received after a name was applied.      *)
C27_Witness ==
    /\ op.name = "data_received_chunk"
    /\ op.arg.kind = "not whole blocks"
    /\ op.arg.data[5] = 24
    /\ Len(op.arg.data) = 29
    /\ ~op.result.decrypted
    /\ transport = "open"
    /\ dev = prev
    /\ dev._device_name \in DeviceNames

-----------------------------------------------------------------------------
(* C28: data that is malformed (a header cut short, a pad that is no pad,  *)
(* text that is no UTF-8, text that is no JSON, an object with no msg) is  *)
(* dropped: no exception leaves data_received, the transport and the       *)
(* connected flag stay as they were, no response is applied and the        *)
(* fields of the device do not change.                                     *)
C28_MalformedDataIsAbsorbed ==
    [][ (/\ op'.name = "data_received_chunk"
         /\ op'.arg.kind \in {"truncated header", "bad padding", "undecodable text",
                               "malformed JSON", "no msg"}) =>
            /\ op'.result.raises = None
            /\ transport' = transport
            /\ connected' = connected
            /\ op'.result.applied = << >>
            /\ dev' = dev ]_vars

-----------------------------------------------------------------------------
(* C29: encrypt_packet returns a packet for every text: the byte 16, the   *)
(* length of the ciphertext in four bytes, the high byte first, and the    *)
(* ciphertext, which is whole blocks of 16 bytes and decrypts to the       *)
(* bytes of the text followed by a pad of 1 to 16 bytes, each the pad      *)
(* count.                                                                  *)
C29_PacketIsMarkerLengthCiphertext ==
    (op.name \in {"encrypt_packet", "encrypt_text"}) =>
        LET text == IF op.name = "encrypt_packet" THEN json_dumps(op.arg) ELSE op.arg
            packet == op.result.value
            encrypted == SubSeq(packet, 6, Len(packet))
            plain == cbc_decrypt(iv, encrypted)
            padlen == plain[Len(plain)]
        IN  /\ op.result.raises = None
            /\ Len(packet) >= 5 + 16
            /\ packet[1] = 16
            /\ ((packet[2] * 256 + packet[3]) * 256 + packet[4]) * 256 + packet[5]
                  = Len(encrypted)
            /\ \A i \in 2..5 : packet[i] \in 0..255
            /\ Len(encrypted) % 16 = 0
            /\ padlen \in 1..16
            /\ \A i \in (Len(plain) - padlen + 1)..Len(plain) : plain[i] = padlen
            /\ SubSeq(plain, 1, Len(plain) - padlen) = utf8_encode(text)

-----------------------------------------------------------------------------
(* C30: a payload that decrypts to bytes ending in 0 or in more than 16    *)
(* makes decrypt_packet fail: an error is raised, no response is handed    *)
(* to a task and nothing is parsed or applied.                             *)
C30_BadPadFailsWithoutResponse ==
    (/\ op.name = "data_received_chunk"
     /\ op.result.decrypted
     /\ (op.result.padding = 0 \/ op.result.padding > 16)) =>
        /\ op.result.raises # None
        /\ op.result.response = << >>
        /\ op.result.applied = << >>

-----------------------------------------------------------------------------
(* C31: no apply of a response takes an index out of the known sources or  *)
(* out of the known equalisers: what _functions and _equalisers hold       *)
(* before a step they hold after it.                                       *)
C31_KnownSetsOnlyGrow ==
    [][ /\ Range(dev._functions) \subseteq Range(dev'._functions)
        /\ Range(dev._equalisers) \subseteq Range(dev'._equalisers) ]_vars

-----------------------------------------------------------------------------
(* C32: a field of the device changes only in a step that is the apply of  *)
(* a response.                                                             *)
C32_FieldsChangeOnlyInAnApply ==
    [][ dev' # dev => op'.name = "handle_event" ]_vars

(* C32, amended: a field of the device changes only in a step that is the  *)
(* apply of one response, which leaves the fields as handle_event of that  *)
(* response gives them, or a volume command, which writes _volume and no   *)
(* other field, or source_next, which writes _function and no other        *)
(* field; each is one step, with no other step inside it.                  *)
C32_FieldsChangeInAnApplyOrAStore ==
    [][ dev' # dev =>
          \/ /\ op'.name = "handle_event"
             /\ dev' = handle_event(dev, op'.arg).dev
          \/ /\ op'.name \in {"set_volume_level", "volume_up", "volume_down"}
             /\ dev' = [dev EXCEPT !._volume = dev'._volume]
          \/ /\ op'.name = "source_next"
             /\ dev' = [dev EXCEPT !._function = dev'._function] ]_vars

(* A volume command and source_next that each changed their field.         *)
C32_Witness ==
    \/ /\ op.name = "volume_up"
       /\ dev._volume # prev._volume
       /\ dev._function # -1
    \/ /\ op.name = "source_next"
       /\ dev._function # prev._function
       /\ dev._volume # RatOfInt(0)

-----------------------------------------------------------------------------
(* C33: there is never more than one live poll task, and there is one      *)
(* exactly when a task is registered; a step registers a new task only     *)
(* when none was registered; and the step after stop_polling is never a    *)
(* pass of the loop.                                                       *)
C33_AtMostOnePollTask ==
    [][ /\ live_tasks' \in {0, 1}
        /\ (live_tasks' = 1) = (update_task' # None)
        /\ (update_task' = "created" /\ live_tasks' > live_tasks) => update_task = None
        /\ (update_task # None) => live_tasks' <= live_tasks
        /\ (op.name = "stop_polling") => (op'.name # "poll") ]_vars

(* A task created after stop_polling had cancelled a sleeping one.         *)
C33_Witness ==
    /\ op.name \in {"start_polling", "connect", "turn_on"}
    /\ op.task = None
    /\ update_task = "created"
    /\ live_tasks = 1
    /\ retry > 0


C35_ConnectedIffHandlePresent ==
    connected = (transport # None)

(* C36: every attribute of an emitted UPDATE mapping equals the value its  *)
(* accessor returns once the operation that emitted it has ended.          *)
C36_EventAgreesWithAccessors ==
    \A a \in DOMAIN Emitted : Emitted[a] = Attributes(dev)[a]

(* C37: send_command(TOGGLE) writes the power command that toggle() writes *)
(* for the same device state over the same transport: power-on when the    *)
(* state is OFF, power-off otherwise.                                      *)
C37_SendCommandToggleIsToggle ==
    (op.name = "send_command" /\ op.arg = "toggle") =>
        /\ sent = toggle(prev, op.transport).sent
        /\ sent = power(op.transport, state(prev) = "OFF")

C39_ConnectedEmittedWhenConnected ==
    (op.name = "connect" /\ events # << >>) =>
        /\ events[Len(events)].event = "CONNECTED"
        /\ transport # None
        /\ connected
        /\ Len(sent) = 5

(* C40: the consecutive-failure counter stays within 0 and                 *)
(* CONNECTION_RETRIES + 1; the first iteration of a poll task counts from  *)
(* 0, whatever an earlier task left; and the loop issues a pass only with  *)
(* the counter at most CONNECTION_RETRIES.                                 *)
C40_CounterWithinRetries ==
    [][ /\ retry' \in 0..(CONNECTION_RETRIES + 1)
        /\ (op'.name = "poll" /\ op'.arg = "first") =>
              retry' = (IF ~always_on /\ state(dev) = "OFF" THEN 1 ELSE 0)
        /\ (op'.name = "poll" /\ op'.result = "polled") =>
              retry' <= CONNECTION_RETRIES
        /\ (op'.name = "poll" /\ retry' > CONNECTION_RETRIES) =>
              (op'.result = "stopped" /\ sent' = << >>) ]_vars

(* A new task starts after an earlier one gave up and left the counter at  *)
(* CONNECTION_RETRIES + 1: its first iteration, the device still off,      *)
(* counts 1 and issues its pass.                                           *)
C40_Witness ==
    /\ op.name = "poll"
    /\ op.arg = "first"
    /\ op.result = "polled"
    /\ op.retry = CONNECTION_RETRIES + 1
    /\ retry = 1

=============================================================================
